---- MODULE Spec2Model ----
(***************************************************************************)
(* GitMindPro: the client-side orchestration engine.                       *)
(*                                                                         *)
(*   - parseGithubUrl        (services/githubService.ts)                   *)
(*   - fetchRepoStructure    (services/githubService.ts)                   *)
(*   - RateLimiter           (utils/rateLimiter.ts)                        *)
(*   - the inference gateway (services/geminiService.ts)                   *)
(*   - handleImport          (the App component's pipeline)                *)
(*   - Cache                 (the in-memory response cache)                *)
(*                                                                         *)
(* One module, several specifications over the same variables: each        *)
(* specification moves the variables of the component it is about and      *)
(* leaves the others at their initial values.                              *)
(***************************************************************************)
EXTENDS Integers, Sequences, FiniteSets, TLC

VARIABLES
    \* parseGithubUrl
    parseIn,        \* the string handed to parseGithubUrl, as a sequence of tokens
    parseOut,       \* what it returned: NoMatch (null) or [ok, owner, repo]
    parsePc,        \* "idle" | "called" | "returned"
    \* fetchRepoStructure
    treeData,       \* data.tree: the flat list the provider returned
    treeMax,        \* options.maxEntries (0: not given)
    treeIdx,        \* the forEach position in treeItems
    treeRoot,       \* root: the top-level nodes, in order
    treeMap,        \* map: the paths that have a node
    treeKids,       \* node.children of every node, in order (blobs have none)
    \* RateLimiter
    now,            \* Date.now()
    rlCfg,          \* this.config: [maxRequests, windowMs]
    buckets,        \* this.buckets: key -> [tokens, lastRefill]; tokens are kept
                    \* multiplied by windowMs, so that every refill is an integer
    allowedLog,     \* per key, the times of the calls answered allowed since the
                    \* key's bucket was last created
    rlLast,         \* the last answer of isAllowed: [key, at, allowed, retryAfter]
    rlCalls,        \* how many isAllowed calls were made
    \* the inference gateway: one call of an exported operation at a time
    apiKeyOk,       \* VITE_GEMINI_API_KEY is set and is not the placeholder
    gwOp,           \* the operation called ("" before the first call)
    gwPc,           \* "idle" | "awaiting" | "sleeping" | "polling" | "downloading"
                    \* | "returned" | "threw"
    gwTimer,        \* withTimeout's timer is armed
    gwIssued,       \* this call has sent a request to the inference service
    gwResult,       \* what the call returned or threw
    gwCalls,        \* how many calls were made
    \* the App component: configuration, session, the runs of handleImport,
    \* and the state it exposes
    authEnabled,    \* isAuthConfigured()
    fastMode,       \* VITE_FAST_MODE
    authLoading,    \* useState(authEnabled)
    authUser,       \* the signed-in user ("" for null)
    runs,           \* per call of handleImport: its position and its locals
    loading,
    repo,           \* the run whose details are in repo (0 for null)
    structure,      \* the run whose tree is in structure (0 for the initial [])
    analysis,
    onboardingGuide,
    onboardingLoading,
    nodes,          \* the ids of the architecture graph's nodes
    edges,          \* its edges, as <<source, target>>
    terminalLogs,   \* the messages added with addLog, as <<run, message>>
    alerts,         \* the alert() dialogs shown, as <<run, kind>>
    netCalls,       \* the requests issued, as <<run, collaborator, request>>
    timers,         \* the runs with a pending setTimeout(() => setLoading(false))
    saves,          \* saveAnalysisRecord calls: run -> [state, analysis]
    faults,         \* how many requests of the pipeline have failed so far
    insights,       \* the run from whose repo the insights bundle is (0 for null)
    insightsLoading,
    insightCalls,   \* per run: the fetchProjectInsights call made while repo held
                    \* that run's details: "idle" | "fetching" | "analyzing" | "done"
    \* Cache
    cacheTtl,       \* this.ttlMs
    cacheClock,     \* Date.now()
    cache,          \* this.cache: key -> [data, timestamp]
    cacheLast,      \* the last call and what it returned: [op, key, hit, data, size]
    cacheWrites,    \* per key, the last write: [live, data, at, reads]; live is
                    \* FALSE when it was delete or clear, reads counts the get and
                    \* has calls on the key since
    cacheOps,       \* how many calls were made
    \* handleError
    errIn,          \* the value that was caught
    errOut,         \* what handleError returned for it
    errPc           \* "idle" | "once" | "twice": how often handleError was applied

parseVars == <<parseIn, parseOut, parsePc>>
treeVars == <<treeData, treeMax, treeIdx, treeRoot, treeMap, treeKids>>
rlVars == <<now, rlCfg, buckets, allowedLog, rlLast, rlCalls>>
gwVars == <<apiKeyOk, gwOp, gwPc, gwTimer, gwIssued, gwResult, gwCalls>>
insightVars == <<insights, insightsLoading, insightCalls>>
appVars == <<authEnabled, fastMode, authLoading, authUser, runs, loading, repo,
             structure, analysis, onboardingGuide, onboardingLoading, nodes, edges,
             terminalLogs, alerts, netCalls, timers, saves, faults, insightVars>>
cacheVars == <<cacheTtl, cacheClock, cache, cacheLast, cacheWrites, cacheOps>>
errVars == <<errIn, errOut, errPc>>
vars == <<parseVars, treeVars, rlVars, gwVars, appVars, cacheVars, errVars>>

\* null, as the result of parseGithubUrl
NoMatch == [ok |-> FALSE]

(***************************************************************************)
(* Bounds of the model.                                                    *)
(***************************************************************************)
MaxTail == 5        \* tokens after the head of a reference string
MaxEntriesLen == 4  \* entries of a flat tree listing

(***************************************************************************)
(* Sequence helpers.                                                       *)
(***************************************************************************)
Last(s) == s[Len(s)]
Front(s) == SubSeq(s, 1, Len(s) - 1)
Range(s) == {s[i] : i \in 1..Len(s)}
SeqsUpTo(S, n) == UNION {[1..k -> S] : k \in 0..n}
Min(a, b) == IF a <= b THEN a ELSE b

(***************************************************************************)
(* parseGithubUrl.                                                         *)
(*                                                                         *)
(* A reference string is a sequence of tokens.  Each token stands for a    *)
(* run of characters that the regular expressions and the URL parser       *)
(* treat as a unit:                                                        *)
(*   "git@github.com:"   the literal prefix of the SSH form                *)
(*   "https://github.com", "https://www.github.com"                        *)
(*                       scheme and host of the provider                   *)
(*   "https://not-the-provider.com"   scheme and another host              *)
(*   "not-a-url"         a word with no scheme                             *)
(*   "/"  ".git"  " "    a slash, the suffix, one blank                    *)
(*   "acme" "widgets"    words of letters                                  *)
(***************************************************************************)
SshHead == "git@github.com:"
GithubHeads == {"https://github.com", "https://www.github.com"}
OtherHead == "https://not-the-provider.com"
PlainHead == "not-a-url"
Heads == {SshHead, OtherHead, PlainHead} \cup GithubHeads
Words == {"acme", "widgets"}
TailTokens == Words \cup {"/", ".git", " "}

RECURSIVE TrimLeft(_)
TrimLeft(s) == IF s # <<>> /\ Head(s) = " " THEN TrimLeft(Tail(s)) ELSE s

RECURSIVE TrimRight(_)
TrimRight(s) == IF s # <<>> /\ Last(s) = " " THEN TrimRight(Front(s)) ELSE s

\* String.prototype.trim
Trim(s) == TrimRight(TrimLeft(s))

\* The index of the first "/" of s, 0 when there is none.
FirstSlash(s) ==
    IF \E i \in 1..Len(s) : s[i] = "/"
    THEN CHOOSE i \in 1..Len(s) : s[i] = "/" /\ \A j \in 1..(i - 1) : s[j] # "/"
    ELSE 0

\* A repository group that takes the whole rest, as a greedy group would.
SshRepoGroupGreedy(rest) == rest

\* ([^\s]+?)(?:\.git)?\/?$ on a non-empty blank-free rest: the lazy group takes
\* the shortest prefix that leaves an optional ".git" and an optional "/".
SshRepoGroup(rest) ==
    LET noSlash == IF Len(rest) > 1 /\ Last(rest) = "/" THEN Front(rest) ELSE rest
    IN  IF Len(noSlash) > 1 /\ Last(noSlash) = ".git" THEN Front(noSlash) ELSE noSlash

\* trimmed.match(/^git@github\.com:([^/\s]+)\/([^\s]+?)(?:\.git)?\/?$/i)
SshMatch(t) ==
    IF t = <<>> \/ Head(t) # SshHead THEN NoMatch
    ELSE LET body == Tail(t)
             k == FirstSlash(body)
         IN  IF k <= 1 \/ k = Len(body) \/ " " \in Range(body) THEN NoMatch
             ELSE [ok |-> TRUE, owner |-> SubSeq(body, 1, k - 1),
                   repo |-> SshRepoGroup(SubSeq(body, k + 1, Len(body)))]

\* pathname.split('/'): the runs of tokens between slashes, empty ones included.
RECURSIVE SplitSlash(_)
SplitSlash(s) ==
    LET k == FirstSlash(s)
    IN  IF k = 0 THEN <<s>>
        ELSE <<SubSeq(s, 1, k - 1)>> \o SplitSlash(SubSeq(s, k + 1, Len(s)))

\* .filter(Boolean)
RECURSIVE FilterNonEmpty(_)
FilterNonEmpty(ss) ==
    IF ss = <<>> THEN <<>>
    ELSE IF Head(ss) = <<>> THEN FilterNonEmpty(Tail(ss))
         ELSE <<Head(ss)>> \o FilterNonEmpty(Tail(ss))

\* parts[1].replace(/\.git$/i, '')
StripGit(seg) == IF seg # <<>> /\ Last(seg) = ".git" THEN Front(seg) ELSE seg

\* new URL(trimmed): [ok |-> FALSE] when it throws, else the host test and the
\* path.  A string with no scheme throws; a host followed by anything but "/"
\* is another host (or none); a blank inside the path is kept (percent-encoded).
ParseUrl(t) ==
    IF t = <<>> \/ Head(t) \notin (GithubHeads \cup {OtherHead}) THEN [ok |-> FALSE]
    ELSE IF Len(t) > 1 /\ t[2] = " " THEN [ok |-> FALSE]
    ELSE [ok |-> TRUE,
          hostIsGithub |-> Head(t) \in GithubHeads /\ (Len(t) = 1 \/ t[2] = "/"),
          path |-> Tail(t)]

\* if (parts.length >= 2)
HttpsPartsOk(parts) == Len(parts) >= 2

parseGithubUrl(url) ==
    LET trimmed == Trim(url)
        ssh == SshMatch(trimmed)
    IN  IF ssh.ok THEN ssh
        ELSE LET parsed == ParseUrl(trimmed)
             IN  IF ~parsed.ok THEN NoMatch
                 ELSE IF ~parsed.hostIsGithub THEN NoMatch
                 ELSE LET parts == FilterNonEmpty(SplitSlash(parsed.path))
                      IN  IF HttpsPartsOk(parts)
                          THEN LET owner == parts[1]
                                   name == StripGit(parts[2])
                               IN  IF owner # <<>> /\ name # <<>>
                                   THEN [ok |-> TRUE, owner |-> owner, repo |-> name]
                                   ELSE NoMatch
                          ELSE NoMatch

ParseInputs ==
    {<<h>> \o t : h \in Heads, t \in SeqsUpTo(TailTokens, MaxTail)}
    \cup {<<" ", h>> \o t : h \in {SshHead, "https://github.com"},
                            t \in SeqsUpTo(TailTokens, MaxTail - 1)}

(***************************************************************************)
(* fetchRepoStructure: the reconstruction of the hierarchy from data.tree. *)
(* A path is the sequence of its segments (item.path.split('/')).          *)
(***************************************************************************)
Entry(p, t) == [path |-> p, type |-> t]
EntryUniverse ==
    { Entry(<<"a">>, "tree"),
      Entry(<<"a", "b">>, "tree"),
      Entry(<<"a", "b", "c.txt">>, "blob"),
      Entry(<<"a", "e.txt">>, "blob"),
      Entry(<<"d.txt">>, "blob"),
      Entry(<<"d.txt", "z">>, "blob"),
      Entry(<<"x", "y">>, "blob") }
PathUniverse == {e.path : e \in EntryUniverse}
TypeOf(p) == (CHOOSE e \in EntryUniverse : e.path = p).type

\* The listings the provider may return: no path twice.
TreeListings ==
    {s \in SeqsUpTo(EntryUniverse, MaxEntriesLen) :
        \A i, j \in 1..Len(s) : i # j => s[i] # s[j]}

\* options?.maxEntries ? data.tree.slice(0, options.maxEntries) : data.tree
TreeItems(data, maxEntries) ==
    IF maxEntries # 0 THEN SubSeq(data, 1, Min(maxEntries, Len(data))) ELSE data

treeItems == TreeItems(treeData, treeMax)

\* parts.slice(0, -1).join('/')
ParentPath(p) == Front(p)

\* if (parts.length === 1) root.push(node)
AttachRoot(root, map, item) ==
    IF Len(item.path) = 1 THEN Append(root, item.path) ELSE root

\* An attachment to whatever node stands at the parent path, a blob too.
AttachKidsUntyped(kids, map, item) ==
    LET parent == Front(item.path)
    IN  IF Len(item.path) # 1 /\ parent \in map
        THEN [kids EXCEPT ![parent] = Append(@, item.path)]
        ELSE kids

\* else { const parent = map[...]; if (parent) parent.children?.push(node) }
\* children is an array only for a node of type tree.
AttachKids(kids, map, item) ==
    LET parent == ParentPath(item.path)
    IN  IF Len(item.path) # 1 /\ parent \in map /\ TypeOf(parent) = "tree"
        THEN [kids EXCEPT ![parent] = Append(@, item.path)]
        ELSE kids

TreeIdle ==
    /\ treeData = <<>> /\ treeMax = 0 /\ treeIdx = 0
    /\ treeRoot = <<>> /\ treeMap = {} /\ treeKids = [p \in PathUniverse |-> <<>>]

\* The provider has answered; root and map are empty.
TreeInit ==
    /\ treeData \in TreeListings
    /\ treeMax \in 0..2
    /\ treeIdx = 1
    /\ treeRoot = <<>> /\ treeMap = {} /\ treeKids = [p \in PathUniverse |-> <<>>]

\* return root
treeDone == treeIdx = Len(treeItems) + 1

(***************************************************************************)
(* RateLimiter.  tokens is a fraction with denominator windowMs:           *)
(* a bucket's tokens field holds tokens * windowMs, so that                *)
(*   tokensToAdd = (timePassed / windowMs) * maxRequests                   *)
(* is timePassed * maxRequests, and "tokens >= 1" is "tokens >= windowMs". *)
(***************************************************************************)
CeilDiv(a, b) == (a + b - 1) \div b

\* A refill that is not capped at the capacity.
RefillUnclamped(b, t, cfg) == b.tokens + (t - b.lastRefill) * cfg.maxRequests

\* Math.min(maxRequests, bucket.tokens + tokensToAdd)
Refill(b, t, cfg) ==
    Min(cfg.maxRequests * cfg.windowMs,
        b.tokens + (t - b.lastRefill) * cfg.maxRequests)

\* A limiter that keeps one bucket for all keys.
IsAllowedShared(bk, key, t, cfg) ==
    LET b0 == IF key \in DOMAIN bk THEN bk[key]
              ELSE [tokens |-> cfg.maxRequests * cfg.windowMs, lastRefill |-> t]
        filled == Min(cfg.maxRequests * cfg.windowMs,
                      b0.tokens + (t - b0.lastRefill) * cfg.maxRequests)
        allowed == filled >= cfg.windowMs
        b1 == [tokens |-> IF allowed THEN filled - cfg.windowMs ELSE filled,
               lastRefill |-> t]
    IN  [buckets |-> [k \in DOMAIN bk \cup {key} |-> b1],
         allowed |-> allowed,
         retryAfter |-> IF allowed THEN 0
                        ELSE (cfg.windowMs - filled + cfg.maxRequests - 1)
                                 \div cfg.maxRequests]

\* isAllowed(key) at time t on the buckets bk:
\* [buckets, allowed, retryAfter] (retryAfter is 0 when allowed).
IsAllowed(bk, key, t, cfg) ==
    LET b0 == IF key \in DOMAIN bk THEN bk[key]
              ELSE [tokens |-> cfg.maxRequests * cfg.windowMs, lastRefill |-> t]
        filled == Refill(b0, t, cfg)
        allowed == filled >= cfg.windowMs
        b1 == [tokens |-> IF allowed THEN filled - cfg.windowMs ELSE filled,
               lastRefill |-> t]
    IN  [buckets |-> [k \in DOMAIN bk \cup {key} |-> IF k = key THEN b1 ELSE bk[k]],
         allowed |-> allowed,
         retryAfter |-> IF allowed THEN 0
                        ELSE CeilDiv(cfg.windowMs - filled, cfg.maxRequests)]

NoBuckets == [k \in {} |-> 0]
NoAnswer == [key |-> "", at |-> 0, allowed |-> FALSE, retryAfter |-> 0]

\* apiRateLimiter = new RateLimiter({ maxRequests: 20, windowMs: 60000 })
ApiMaxRequests == 20
ApiWindowMs == 60000
ApiConfig == [maxRequests |-> ApiMaxRequests, windowMs |-> ApiWindowMs]

\* The limiter specification: a RateLimiter of a small configuration, two keys.
RLMaxCapacity == 2
RLMaxWindow == 4
MaxTime == 6
MaxRLCalls == 5
RLKeys == {"audit", "chat"}
RLConfigs ==
    {[maxRequests |-> c, windowMs |-> w] : c \in 1..RLMaxCapacity, w \in 2..RLMaxWindow}

RLIdle ==
    /\ now = 0 /\ rlCfg = ApiConfig /\ buckets = NoBuckets
    /\ allowedLog = [k \in RLKeys |-> <<>>] /\ rlLast = NoAnswer /\ rlCalls = 0

RLInit ==
    /\ now = 0 /\ rlCfg \in RLConfigs /\ buckets = NoBuckets
    /\ allowedLog = [k \in RLKeys |-> <<>>] /\ rlLast = NoAnswer /\ rlCalls = 0

(***************************************************************************)
(* RateLimiter in the arithmetic of the code.  tokens, tokensToAdd and     *)
(* retryAfter are JavaScript numbers: IEEE 754 doubles, every operation    *)
(* rounded to the nearest value of 53 significant bits, ties to even.  A   *)
(* double is [n, s]: the value n / 2^s with s as small as it can be; n is  *)
(* a natural number written in limbs of 14 bits, lowest first, without     *)
(* high zeros, so that no intermediate value leaves the 32-bit integers.   *)
(* IsAllowed above is the same computation without the rounding.           *)
(***************************************************************************)
MantissaBits == 53
LimbBits == 14
LimbBase == 16384

RECURSIVE Pow2(_)
Pow2(k) == IF k = 0 THEN 1 ELSE 2 * Pow2(k - 1)
RECURSIVE BitLenInt(_)
BitLenInt(i) == IF i = 0 THEN 0 ELSE 1 + BitLenInt(i \div 2)
RECURSIVE LowZerosInt(_)
LowZerosInt(i) == IF i % 2 = 1 THEN 0 ELSE 1 + LowZerosInt(i \div 2)

RECURSIVE BigOfInt(_)
BigOfInt(i) == IF i = 0 THEN <<>> ELSE <<i % LimbBase>> \o BigOfInt(i \div LimbBase)
RECURSIVE IntOfBig(_)
IntOfBig(a) == IF a = <<>> THEN 0 ELSE a[1] + LimbBase * IntOfBig(Tail(a))
Limb(a, i) == IF i <= Len(a) THEN a[i] ELSE 0
RECURSIVE BigTrim(_)
BigTrim(a) == IF a = <<>> \/ a[Len(a)] # 0 THEN a ELSE BigTrim(SubSeq(a, 1, Len(a) - 1))

\* a + b + c from limb i on, for numbers of at most len limbs
RECURSIVE BigAddFrom(_, _, _, _, _)
BigAddFrom(a, b, i, c, len) ==
    IF i > len THEN BigOfInt(c)
    ELSE LET t == Limb(a, i) + Limb(b, i) + c
         IN  <<t % LimbBase>> \o BigAddFrom(a, b, i + 1, t \div LimbBase, len)
BigAdd(a, b) == BigTrim(BigAddFrom(a, b, 1, 0, IF Len(a) > Len(b) THEN Len(a) ELSE Len(b)))

\* a - b - c from limb i on, for a >= b
RECURSIVE BigSubFrom(_, _, _, _)
BigSubFrom(a, b, i, c) ==
    IF i > Len(a) THEN <<>>
    ELSE LET t == Limb(a, i) - Limb(b, i) - c
         IN  <<(t + LimbBase) % LimbBase>> \o BigSubFrom(a, b, i + 1, IF t < 0 THEN 1 ELSE 0)
BigSub(a, b) == BigTrim(BigSubFrom(a, b, 1, 0))

\* a < b, compared from the highest limb i down
RECURSIVE BigLessFrom(_, _, _)
BigLessFrom(a, b, i) ==
    IF i = 0 THEN FALSE
    ELSE IF a[i] # b[i] THEN a[i] < b[i]
    ELSE BigLessFrom(a, b, i - 1)
BigLess(a, b) ==
    IF Len(a) # Len(b) THEN Len(a) < Len(b) ELSE BigLessFrom(a, b, Len(a))

\* a * m + c from limb i on, for m < LimbBase
RECURSIVE BigMulSmallFrom(_, _, _, _)
BigMulSmallFrom(a, m, i, c) ==
    IF i > Len(a) THEN BigOfInt(c)
    ELSE LET t == a[i] * m + c
         IN  <<t % LimbBase>> \o BigMulSmallFrom(a, m, i + 1, t \div LimbBase)

\* the products of the limbs of a and b that meet in column k, from limb i of a on
RECURSIVE ColSum(_, _, _, _)
ColSum(a, b, k, i) ==
    IF i > Len(a) \/ i > k THEN 0
    ELSE a[i] * Limb(b, k + 1 - i) + ColSum(a, b, k, i + 1)

\* a * b from column k on, c the carry of the columns below (a and b of at most
\* four limbs, as two mantissas are)
RECURSIVE BigMulFrom(_, _, _, _)
BigMulFrom(a, b, k, c) ==
    IF k > Len(a) + Len(b) THEN BigOfInt(c)
    ELSE LET t == c + ColSum(a, b, k, 1)
         IN  <<t % LimbBase>> \o BigMulFrom(a, b, k + 1, t \div LimbBase)
BigMul(a, b) == BigTrim(BigMulFrom(a, b, 1, 0))

\* a divided by d < 2^17: [q, r] with a = q * d + r and r < d (q may have high
\* zeros)
RECURSIVE BigDivSmall(_, _)
BigDivSmall(a, d) ==
    IF a = <<>> THEN [q |-> <<>>, r |-> 0]
    ELSE LET hi == BigDivSmall(Tail(a), d)
             t == hi.r * LimbBase + a[1]
         IN  [q |-> <<t \div d>> \o hi.q, r |-> t % d]

\* a * 2^k and the whole part of a / 2^k
BigShl(a, k) ==
    IF a = <<>> THEN <<>>
    ELSE [i \in 1..(k \div LimbBits) |-> 0]
             \o BigTrim(BigMulSmallFrom(a, Pow2(k % LimbBits), 1, 0))
BigShr(a, k) ==
    BigTrim(BigDivSmall(SubSeq(a, k \div LimbBits + 1, Len(a)), Pow2(k % LimbBits)).q)

BitLen(a) == IF a = <<>> THEN 0 ELSE (Len(a) - 1) * LimbBits + BitLenInt(a[Len(a)])

\* how many of the low bits of a # 0 are zero
RECURSIVE LowZeros(_)
LowZeros(a) == IF a[1] = 0 THEN LimbBits + LowZeros(Tail(a)) ELSE LowZerosInt(a[1])

Dbl(n, s) ==
    IF n = <<>> THEN [n |-> <<>>, s |-> 0]
    ELSE LET z == Min(LowZeros(n), s) IN [n |-> BigShr(n, z), s |-> s - z]

\* n / 2^s rounded to MantissaBits significant bits, ties to even
RoundDbl(n, s) ==
    IF BitLen(n) <= MantissaBits THEN Dbl(n, s)
    ELSE LET d == BitLen(n) - MantissaBits
             q == BigShr(n, d)
             rest == BigSub(n, BigShl(q, d))
             half == BigShl(<<1>>, d - 1)
             up == BigLess(half, rest) \/ (rest = half /\ q[1] % 2 = 1)
         IN  Dbl(BigShl(IF up THEN BigAdd(q, <<1>>) ELSE q, d), s)

DblOfInt(i) == Dbl(BigOfInt(i), 0)

\* i / j for two integers (both are doubles of their own value): the quotient
\* to more bits than a mantissa has, with one more bit that tells whether
\* anything was left
DblDivInt(i, j) ==
    LET k == MantissaBits + BitLenInt(j) + 2
        dv == BigDivSmall(BigShl(BigOfInt(i), k), j)
    IN  RoundDbl(BigAdd(BigShl(BigTrim(dv.q), 1), IF dv.r = 0 THEN <<>> ELSE <<1>>),
                 k + 1)

DblMul(x, y) == RoundDbl(BigMul(x.n, y.n), x.s + y.s)

DblAlign(x, s) == BigShl(x.n, s - x.s)
DblScale(x, y) == IF x.s > y.s THEN x.s ELSE y.s

DblAdd(x, y) ==
    LET s == DblScale(x, y) IN RoundDbl(BigAdd(DblAlign(x, s), DblAlign(y, s)), s)

\* x - y for x >= y
DblSub(x, y) ==
    LET s == DblScale(x, y) IN RoundDbl(BigSub(DblAlign(x, s), DblAlign(y, s)), s)

DblLess(x, y) ==
    LET s == DblScale(x, y) IN BigLess(DblAlign(x, s), DblAlign(y, s))

DblMin(x, y) == IF DblLess(y, x) THEN y ELSE x

\* Math.ceil(x)
DblCeil(x) ==
    LET q == BigShr(x.n, x.s)
    IN  IntOfBig(q) + (IF BigShl(q, x.s) = x.n THEN 0 ELSE 1)

\* isAllowed(key) at time t on the buckets bk, whose tokens are doubles:
\* [buckets, allowed, retryAfter] (retryAfter is 0 when allowed).
IsAllowedDbl(bk, key, t, cfg) ==
    LET b0 == IF key \in DOMAIN bk THEN bk[key]
              ELSE [tokens |-> DblOfInt(cfg.maxRequests), lastRefill |-> t]
        timePassed == t - b0.lastRefill
        tokensToAdd == DblMul(DblDivInt(timePassed, cfg.windowMs),
                              DblOfInt(cfg.maxRequests))
        filled == DblMin(DblOfInt(cfg.maxRequests), DblAdd(b0.tokens, tokensToAdd))
        allowed == ~DblLess(filled, DblOfInt(1))
        b1 == [tokens |-> IF allowed THEN DblSub(filled, DblOfInt(1)) ELSE filled,
               lastRefill |-> t]
    IN  [buckets |-> [k \in DOMAIN bk \cup {key} |-> IF k = key THEN b1 ELSE bk[k]],
         allowed |-> allowed,
         retryAfter |->
             IF allowed THEN 0
             ELSE DblCeil(DblMul(DblSub(DblOfInt(1), filled),
                                 DblDivInt(cfg.windowMs, cfg.maxRequests)))]

\* The limiter specification in doubles: a RateLimiter of a small configuration.
DblMaxWindow == 7
DblMaxTime == 8
DblMaxCalls == 3
DblKeys == {"audit"}
DblConfigs ==
    {[maxRequests |-> c, windowMs |-> w] : c \in 1..RLMaxCapacity, w \in 2..DblMaxWindow}

DblInit ==
    /\ now = 0 /\ rlCfg \in DblConfigs /\ buckets = NoBuckets
    /\ allowedLog = [k \in RLKeys |-> <<>>] /\ rlLast = NoAnswer /\ rlCalls = 0

(***************************************************************************)
(* ErrorClassifier: AppError, ErrorCodes and handleError.                  *)
(* A thrown value is [class, code, status, msg]: class is "AppError",      *)
(* "Error" (Error and its other subclasses) or "other" (a value that is no *)
(* Error); msg is the message, a sequence of words.                        *)
(***************************************************************************)
\* new AppError(code, statusCode, message)
AppErrorWith(code, status, msg) ==
    [class |-> "AppError", code |-> code, status |-> status, msg |-> msg]
AppError(code, status) == AppErrorWith(code, status, <<"other">>)
\* new Error(message)
ErrorOf(msg) == [class |-> "Error", code |-> "", status |-> 0, msg |-> msg]
PlainError(msg) == ErrorOf(<<msg>>)
\* a string, null or an object that was thrown
NonError(kind) == [class |-> "other", code |-> "", status |-> 0, msg |-> <<kind>>]

ErrorCodes ==
    {"INVALID_URL", "INVALID_API_KEY", "RATE_LIMIT_EXCEEDED", "API_ERROR",
     "NETWORK_ERROR", "VALIDATION_ERROR", "GITHUB_ERROR"}

\* The words of the messages, and the words in which a string occurs
\* (includes is case-sensitive).
ErrWords == {"fetch", "refetching", "network", "Network", "failed"}
WordsWith(needle) ==
    CASE needle = "fetch" -> {"fetch", "refetching"}
      [] needle = "network" -> {"network"}
      [] OTHER -> {needle}

\* message.includes(needle), for a needle without a space
Includes(msg, needle) == \E i \in 1..Len(msg) : msg[i] \in WordsWith(needle)

NetworkText == <<"Network", "error.", "Please", "check", "your", "connection.">>
UnexpectedText == <<"An", "unexpected", "error", "occurred">>

\* A classifier that wraps every value, an AppError too.
handleErrorWrapping(error) ==
    IF error.class \in {"AppError", "Error"}
    THEN IF Includes(error.msg, "fetch") \/ Includes(error.msg, "network")
         THEN AppErrorWith("NETWORK_ERROR", 503, NetworkText)
         ELSE AppErrorWith("API_ERROR", 500,
                           IF error.msg = <<>> THEN UnexpectedText ELSE error.msg)
    ELSE AppErrorWith("API_ERROR", 500, UnexpectedText)

handleError(error) ==
    IF error.class = "AppError" THEN error
    ELSE IF error.class = "Error"
    THEN IF Includes(error.msg, "fetch") \/ Includes(error.msg, "network")
         THEN AppErrorWith("NETWORK_ERROR", 503, NetworkText)
         ELSE AppErrorWith("API_ERROR", 500,
                           IF error.msg = <<>> THEN UnexpectedText ELSE error.msg)
    ELSE AppErrorWith("API_ERROR", 500, UnexpectedText)

\* The values handed to handleError: AppErrors of every code, Errors with
\* messages of up to MaxErrWords words, and values that are no Error.
MaxErrWords == 2
ThrownValues ==
    {AppErrorWith(c, s, m) : c \in ErrorCodes, s \in {429, 500},
                             m \in {<<"fetch">>, <<"failed">>}}
        \cup {ErrorOf(m) : m \in SeqsUpTo(ErrWords, MaxErrWords)}
        \cup {NonError(k) : k \in {"string", "null", "object"}}

NoError == [class |-> "none"]
ErrIdle == errIn = NoError /\ errOut = NoError /\ errPc = "idle"
ErrInit == errIn \in ThrownValues /\ errOut = NoError /\ errPc = "idle"

\* handleError(errIn)
HandleErrorCall ==
    /\ errPc = "idle"
    /\ errOut' = handleError(errIn)
    /\ errPc' = "once"
    /\ UNCHANGED <<errIn, parseVars, treeVars, rlVars, gwVars, appVars, cacheVars>>

\* handleError of what handleError returned
HandleErrorAgain ==
    /\ errPc = "once"
    /\ errOut' = handleError(errOut)
    /\ errPc' = "twice"
    /\ UNCHANGED <<errIn, parseVars, treeVars, rlVars, gwVars, appVars, cacheVars>>

(***************************************************************************)
(* The inference gateway (geminiService.ts).  For every exported operation:*)
(*   key      the identifier it hands to checkRateLimit                    *)
(*   timeout  whether its request is wrapped in withTimeout                *)
(*   out      how the reply becomes the result:                            *)
(*              "json"   JSON.parse(response.text || '{}')                 *)
(*              "plan"   JSON.parse, then every field defaulted            *)
(*              "text"   response.text || ""                               *)
(*              "prose"  response.text || a fixed sentence                 *)
(*              "pulse"  an object built from the text and the chunks      *)
(*              "audio"  inlineData.data || ''                             *)
(*              "video"  the submit-and-poll loop                          *)
(*   catch    "throw": throw handleError(error); "fallback": return a      *)
(*            fixed value of the declared shape                            *)
(***************************************************************************)
Op(key, timeout, out, catch) ==
    [key |-> key, timeout |-> timeout, out |-> out, catch |-> catch]

GatewayOps ==
    [ performDeepAudit |-> Op("audit", FALSE, "json", "throw"),
      generateVulnerabilityRemediation |-> Op("remediation", FALSE, "plan", "throw"),
      analyzeRepository |-> Op("analysis", TRUE, "json", "throw"),
      generateVisionVideo |-> Op("video", FALSE, "video", "throw"),
      generateBoardroomQA |-> Op("audio", FALSE, "audio", "throw"),
      getMarketPulse |-> Op("market-pulse", FALSE, "pulse", "throw"),
      analyzeVisualPrototype |-> Op("visual-audit", FALSE, "json", "throw"),
      synthesizeLabTask |-> Op("lab-task", FALSE, "text", "throw"),
      explainCode |-> Op("code-explain", FALSE, "text", "throw"),
      chatWithRepo |-> Op("chat", FALSE, "text", "throw"),
      generateRepoSummaryReport |-> Op("repo-summary", FALSE, "text", "throw"),
      generateProjectPlan |-> Op("project-plan", FALSE, "text", "throw"),
      generateSpeech |-> Op("speech", FALSE, "audio", "throw"),
      analyzeIssues |-> Op("issues", FALSE, "json", "fallback"),
      analyzePullRequests |-> Op("prs", FALSE, "json", "fallback"),
      analyzeTeamDynamics |-> Op("team", FALSE, "json", "fallback"),
      generateOnboardingGuide |-> Op("onboarding", FALSE, "json", "throw"),
      analyzeCodeOwnership |-> Op("ownership", FALSE, "prose", "fallback"),
      analyzeRecentActivity |-> Op("activity", FALSE, "prose", "fallback"),
      analyzeTestingSetup |-> Op("testing", FALSE, "json", "fallback") ]

OpNames == DOMAIN GatewayOps
OpKeys == {GatewayOps[o].key : o \in OpNames}

\* The operations that declare a responseSchema with required fields.
ShapedOps == {o \in OpNames : GatewayOps[o].out \in {"json", "plan"}}

\* What the service can answer to generateContent:
\*   "valid"        text that satisfies the declared shape
\*   "missing"      a JSON object without some required field
\*   "empty"        no text at all
\*   "unparseable"  text that JSON.parse rejects
Replies == {"valid", "missing", "empty", "unparseable"}
\* and how the request can be rejected: a transport failure ("fetch") or an
\* error reported by the service ("other").
Rejections == {"fetch", "other"}

NoResult == [kind |-> "none"]
Value(shape) == [kind |-> "value", shape |-> shape]
Thrown(e) == [kind |-> "error", code |-> e.code, status |-> e.status]

\* The catch block of an operation, given the thrown value.
GatewayCatch(op, error) ==
    IF GatewayOps[op].catch = "throw"
    THEN Thrown(handleError(error))
    ELSE Value("fallback")

\* The statements after the await, given the reply.
\* Shapes: "full" has every required field, "partial" lacks some, "emptyObject"
\* is {}.
GatewayResult(op, reply) ==
    LET out == GatewayOps[op].out
    IN  CASE out = "json" ->
               IF reply = "unparseable" THEN GatewayCatch(op, PlainError("other"))
               ELSE IF reply = "empty" THEN Value("emptyObject")
               ELSE IF reply = "missing" THEN Value("partial")
               ELSE Value("full")
          [] out = "plan" ->
               IF reply = "unparseable" THEN GatewayCatch(op, PlainError("other"))
               ELSE Value("full")
          [] out = "text" ->
               IF reply = "empty" THEN Value("emptyText") ELSE Value("text")
          [] out = "prose" -> Value("text")
          [] out = "pulse" -> Value("full")
          [] OTHER ->
               IF reply = "valid" THEN Value("audio") ELSE Value("emptyText")

\* withTimeout(..., getTimeoutMs(), label) around the request
UsesTimeout(op) == GatewayOps[op].timeout

\* An entry that goes on whatever the limiter answers.
GatewayEnterUnlimited(bk, op, t, keyOk) ==
    LET r == IsAllowed(bk, GatewayOps[op].key, t, ApiConfig)
    IN  [buckets |-> r.buckets,
         ok |-> keyOk,
         error |-> AppError("INVALID_API_KEY", 401)]

\* checkRateLimit(key) and getApiKey(), in this order: the buckets afterwards,
\* and the value thrown, if any.
GatewayEnter(bk, op, t, keyOk) ==
    LET r == IsAllowed(bk, GatewayOps[op].key, t, ApiConfig)
    IN  [buckets |-> r.buckets,
         ok |-> r.allowed /\ keyOk,
         error |-> IF ~r.allowed THEN AppError("RATE_LIMIT_EXCEEDED", 429)
                   ELSE AppError("INVALID_API_KEY", 401)]

(***************************************************************************)
(* The App component: handleImport and the state it exposes.               *)
(***************************************************************************)
MaxRuns == 2
\* At most this many requests of the pipeline fail or are answered badly.
MaxFaults == 1
Runs == 1..MaxRuns

\* What the user may have typed into the input when the form is submitted.
Urls ==
    { <<"https://github.com", "/", "acme", "/", "widgets">>,
      <<"not-a-url">> }

\* The replies to analyzeRepository carry an architecture graph: the valid ones
\* differ in whether an edge names a node that is not in flowNodes.
SoundGraph == [flowNodes |-> {"n1", "n2"}, flowEdges |-> {<<"n1", "n2">>}]
DanglingGraph ==
    [flowNodes |-> {"n1", "n2"}, flowEdges |-> {<<"n1", "n2">>, <<"n1", "n3">>}]
NoGraph == [flowNodes |-> {}, flowEdges |-> {}]
Graphs == {SoundGraph, DanglingGraph}

NoAnalysis == [run |-> 0, shape |-> "none", flowNodes |-> {}, flowEdges |-> {}]
Analysis(r, shape, g) ==
    [run |-> r, shape |-> shape,
     flowNodes |-> IF shape = "full" THEN g.flowNodes ELSE {},
     flowEdges |-> IF shape = "full" THEN g.flowEdges ELSE {}]

\* An onboarding guide: the shape of its base fields, and the three optional
\* enrichments, each "absent", "value" or "fallback" (the fixed value the
\* enrichment returns when it fails).
NoGuide ==
    [run |-> 0, shape |-> "none", codeOwnership |-> "absent",
     recentActivity |-> "absent", testingSetup |-> "absent"]
Guide(r, shape) ==
    [run |-> r, shape |-> shape, codeOwnership |-> "absent",
     recentActivity |-> "absent", testingSetup |-> "absent"]

EnrichOps == {"analyzeCodeOwnership", "analyzeRecentActivity", "analyzeTestingSetup"}

\* A merge that is never applied.
MergeDropped(prev, out) == prev

\* A merge that builds the guide from the enrichments alone.
MergeReplaces(prev, out) ==
    IF prev.run # 0
    THEN [run |-> prev.run, shape |-> "none",
          codeOwnership |-> out["analyzeCodeOwnership"],
          recentActivity |-> out["analyzeRecentActivity"],
          testingSetup |-> out["analyzeTestingSetup"]]
    ELSE prev

\* setOnboardingGuide(prev => prev ? { ...prev, codeOwnership, recentActivity,
\* testingSetup } : prev)
MergeEnrichments(prev, out) ==
    IF prev.run # 0
    THEN [prev EXCEPT !.codeOwnership = out["analyzeCodeOwnership"],
                      !.recentActivity = out["analyzeRecentActivity"],
                      !.testingSetup = out["analyzeTestingSetup"]]
    ELSE prev

\* buildFallbackBlueprint(structure): one node per top-level entry of the tree.
FallbackNodes(struct) == IF struct = 0 THEN {} ELSE {"file"}

\* The nodes the effect on [analysis, structure] computes.
FlowNodes(a, struct) ==
    IF a.flowNodes # {} THEN a.flowNodes ELSE FallbackNodes(struct)

\* rawEdges.filter(edge => ... nodeIds.has(edge.source) && nodeIds.has(edge.target))
FlowEdges(a, struct) ==
    {e \in a.flowEdges : e[1] \in FlowNodes(a, struct) /\ e[2] \in FlowNodes(a, struct)}

\* useEffect(() => { if (!analysis) return; ... setNodes; setEdges },
\* [analysis, structure]): the graph after analysis or structure has changed.
GraphAfter(a, struct, old) ==
    IF a.run = 0 THEN old
    ELSE [nodes |-> FlowNodes(a, struct), edges |-> FlowEdges(a, struct)]

\* A run of handleImport.
\*   pc       "idle" before the call; "usage", "details", "tree", "readme",
\*            "analysis", "guide", "commits", "enrich": the await it is at;
\*            "rejected": returned before the pipeline started; "failed": left
\*            through the catch block; "complete": ran to the end
\*   url      the input's value when the form was submitted
\*   user     authUser as the call saw it
\*   readme   readmePromise: "unset", "pending", "loaded", "empty" ('')
\*   released handleImport has returned and the run goes on in the background
IdleRun ==
    [pc |-> "idle", url |-> <<>>, user |-> "", readme |-> "unset", released |-> FALSE]

NoSave == [state |-> "none", analysis |-> NoAnalysis]

AppIdle ==
    /\ authEnabled = FALSE /\ fastMode = FALSE /\ authLoading = FALSE /\ authUser = ""
    /\ runs = [r \in Runs |-> IdleRun]
    /\ loading = FALSE /\ repo = 0 /\ structure = 0 /\ analysis = NoAnalysis
    /\ onboardingGuide = NoGuide /\ onboardingLoading = FALSE
    /\ nodes = {} /\ edges = {}
    /\ terminalLogs = {} /\ alerts = {} /\ netCalls = {} /\ timers = {}
    /\ saves = [r \in Runs |-> NoSave] /\ faults = 0
    /\ insights = 0 /\ insightsLoading = FALSE /\ insightCalls = [r \in Runs |-> "idle"]

\* The component is mounted: authLoading starts as authEnabled.
AppInit ==
    /\ authEnabled \in BOOLEAN /\ fastMode \in BOOLEAN
    /\ authLoading = authEnabled /\ authUser = ""
    /\ runs = [r \in Runs |-> IdleRun]
    /\ loading = FALSE /\ repo = 0 /\ structure = 0 /\ analysis = NoAnalysis
    /\ onboardingGuide = NoGuide /\ onboardingLoading = FALSE
    /\ nodes = {} /\ edges = {}
    /\ terminalLogs = {} /\ alerts = {} /\ netCalls = {} /\ timers = {}
    /\ saves = [r \in Runs |-> NoSave] /\ faults = 0
    /\ insights = 0 /\ insightsLoading = FALSE /\ insightCalls = [r \in Runs |-> "idle"]

(***************************************************************************)
(* The actions of the three small specifications.                          *)
(***************************************************************************)
ParseIdle == parseIn = <<>> /\ parseOut = NoMatch /\ parsePc = "idle"

ParseInit == parseIn \in ParseInputs /\ parseOut = NoMatch /\ parsePc = "called"

\* parseGithubUrl returns.
ParseReturn ==
    /\ parsePc = "called"
    /\ parseOut' = parseGithubUrl(parseIn)
    /\ parsePc' = "returned"
    /\ UNCHANGED <<parseIn, treeVars, rlVars, gwVars, appVars, cacheVars, errVars>>

\* One round of treeItems.forEach.
TreeStep ==
    /\ treeIdx >= 1 /\ treeIdx <= Len(treeItems)
    /\ LET item == treeItems[treeIdx]
       IN  /\ treeMap' = treeMap \cup {item.path}
           /\ treeRoot' = AttachRoot(treeRoot, treeMap, item)
           /\ treeKids' = AttachKids(treeKids, treeMap, item)
    /\ treeIdx' = treeIdx + 1
    /\ UNCHANGED <<treeData, treeMax, parseVars, rlVars, gwVars, appVars, cacheVars, errVars>>

\* Date.now() moves on.
Tick ==
    /\ now < MaxTime
    /\ now' = now + 1
    /\ UNCHANGED <<rlCfg, buckets, allowedLog, rlLast, rlCalls, parseVars, treeVars, gwVars, appVars, cacheVars, errVars>>

\* isAllowed(key)
IsAllowedCall(key) ==
    /\ rlCalls < MaxRLCalls
    /\ LET r == IsAllowed(buckets, key, now, rlCfg)
       IN  /\ buckets' = r.buckets
           /\ rlLast' = [key |-> key, at |-> now, allowed |-> r.allowed,
                         retryAfter |-> r.retryAfter]
           /\ allowedLog' = IF r.allowed
                            THEN [allowedLog EXCEPT ![key] = Append(@, now)]
                            ELSE allowedLog
    /\ rlCalls' = rlCalls + 1
    /\ UNCHANGED <<now, rlCfg, parseVars, treeVars, gwVars, appVars, cacheVars, errVars>>

\* reset(key)
Reset(key) ==
    /\ key \in DOMAIN buckets
    /\ buckets' = [k \in DOMAIN buckets \ {key} |-> buckets[k]]
    /\ allowedLog' = [allowedLog EXCEPT ![key] = <<>>]
    /\ UNCHANGED <<now, rlCfg, rlLast, rlCalls, parseVars, treeVars, gwVars, appVars, cacheVars, errVars>>

\* resetAll()
ResetAll ==
    /\ buckets # NoBuckets
    /\ buckets' = NoBuckets
    /\ allowedLog' = [k \in RLKeys |-> <<>>]
    /\ UNCHANGED <<now, rlCfg, rlLast, rlCalls, parseVars, treeVars, gwVars, appVars, cacheVars, errVars>>

\* Date.now() moves on (the limiter in doubles).
TickDbl ==
    /\ now < DblMaxTime
    /\ now' = now + 1
    /\ UNCHANGED <<rlCfg, buckets, allowedLog, rlLast, rlCalls, parseVars, treeVars, gwVars, appVars, cacheVars, errVars>>

\* isAllowed(key), computed in doubles
IsAllowedDblCall(key) ==
    /\ rlCalls < DblMaxCalls
    /\ LET r == IsAllowedDbl(buckets, key, now, rlCfg)
       IN  /\ buckets' = r.buckets
           /\ rlLast' = [key |-> key, at |-> now, allowed |-> r.allowed,
                         retryAfter |-> r.retryAfter]
           /\ allowedLog' = IF r.allowed
                            THEN [allowedLog EXCEPT ![key] = Append(@, now)]
                            ELSE allowedLog
    /\ rlCalls' = rlCalls + 1
    /\ UNCHANGED <<now, rlCfg, parseVars, treeVars, gwVars, appVars, cacheVars, errVars>>

(***************************************************************************)
(* Cache: a map of entries that are valid for ttlMs after they were set    *)
(* and are evicted by the read that finds them expired.                    *)
(***************************************************************************)
CacheMaxTtl == 2
CacheMaxTime == 4
CacheMaxOps == 4
CacheKeys == {"repo", "tree"}
CacheValues == {"v1", "v2"}

NoEntries == [k \in {} |-> 0]
\* null, as the result of get
Miss == [hit |-> FALSE, data |-> ""]
NoCall == [op |-> "", key |-> "", hit |-> FALSE, data |-> "", size |-> 0]
NoWrite == [live |-> FALSE, data |-> "", at |-> 0, reads |-> 0]

\* this.cache.delete(key)
CacheWithout(c, key) == [k \in DOMAIN c \ {key} |-> c[k]]

\* set(key, data) at time t
CacheSet(c, key, data, t) ==
    [k \in DOMAIN c \cup {key} |->
        IF k = key THEN [data |-> data, timestamp |-> t] ELSE c[k]]

\* A get that renews the entry it returns.
CacheGetSliding(c, key, t, ttl) ==
    IF key \notin DOMAIN c THEN [cache |-> c, result |-> Miss]
    ELSE IF t - c[key].timestamp > ttl
    THEN [cache |-> CacheWithout(c, key), result |-> Miss]
    ELSE [cache |-> [c EXCEPT ![key].timestamp = t],
          result |-> [hit |-> TRUE, data |-> c[key].data]]

\* get(key) at time t: [cache, result]
CacheGet(c, key, t, ttl) ==
    IF key \notin DOMAIN c THEN [cache |-> c, result |-> Miss]
    ELSE IF t - c[key].timestamp > ttl
    THEN [cache |-> CacheWithout(c, key), result |-> Miss]
    ELSE [cache |-> c, result |-> [hit |-> TRUE, data |-> c[key].data]]

CacheIdle ==
    /\ cacheTtl = 0 /\ cacheClock = 0 /\ cache = NoEntries /\ cacheLast = NoCall
    /\ cacheWrites = [k \in CacheKeys |-> NoWrite] /\ cacheOps = 0

\* new Cache(ttlMs)
CacheInit ==
    /\ cacheTtl \in 0..CacheMaxTtl /\ cacheClock = 0 /\ cache = NoEntries
    /\ cacheLast = NoCall
    /\ cacheWrites = [k \in CacheKeys |-> NoWrite] /\ cacheOps = 0

cacheRest == <<parseVars, treeVars, rlVars, gwVars, appVars, errVars>>

\* Date.now() moves on.
CacheTick ==
    /\ cacheClock < CacheMaxTime
    /\ cacheClock' = cacheClock + 1
    /\ UNCHANGED <<cacheTtl, cache, cacheLast, cacheWrites, cacheOps, cacheRest>>

\* One more call of a method of the cache.
CacheCall(op, key, hit, data, size) ==
    /\ cacheOps < CacheMaxOps
    /\ cacheOps' = cacheOps + 1
    /\ cacheLast' = [op |-> op, key |-> key, hit |-> hit, data |-> data, size |-> size]
    /\ UNCHANGED <<cacheTtl, cacheClock, cacheRest>>

Read(key) == cacheWrites' = [cacheWrites EXCEPT ![key].reads = @ + 1]

\* set(key, data)
Set(key, data) ==
    /\ cache' = CacheSet(cache, key, data, cacheClock)
    /\ cacheWrites' = [cacheWrites EXCEPT ![key] =
                          [live |-> TRUE, data |-> data, at |-> cacheClock, reads |-> 0]]
    /\ CacheCall("set", key, FALSE, "", 0)

\* get(key)
Get(key) ==
    LET g == CacheGet(cache, key, cacheClock, cacheTtl)
    IN  /\ cache' = g.cache
        /\ Read(key)
        /\ CacheCall("get", key, g.result.hit, g.result.data, 0)

\* has(key): this.get(key) !== null
Has(key) ==
    LET g == CacheGet(cache, key, cacheClock, cacheTtl)
    IN  /\ cache' = g.cache
        /\ Read(key)
        /\ CacheCall("has", key, g.result # Miss, "", 0)

\* delete(key)
Delete(key) ==
    /\ cache' = CacheWithout(cache, key)
    /\ cacheWrites' = [cacheWrites EXCEPT ![key] = NoWrite]
    /\ CacheCall("delete", key, FALSE, "", 0)

\* clear()
Clear ==
    /\ cache' = NoEntries
    /\ cacheWrites' = [k \in CacheKeys |-> NoWrite]
    /\ CacheCall("clear", "", FALSE, "", 0)

\* size()
Size ==
    /\ CacheCall("size", "", FALSE, "", Cardinality(DOMAIN cache))
    /\ UNCHANGED <<cache, cacheWrites>>

(***************************************************************************)
(* The gateway specification: calls of the exported operations, one at a   *)
(* time, against a service that may answer, reject, or stay silent.        *)
(***************************************************************************)
MaxGwCalls == 1

\* A bucket with no token left: the key was used maxRequests times at time 0.
ExhaustedBucket == [tokens |-> 0, lastRefill |-> 0]

GwIdle ==
    /\ apiKeyOk = TRUE /\ gwOp = "" /\ gwPc = "idle" /\ gwTimer = FALSE
    /\ gwIssued = FALSE /\ gwResult = NoResult /\ gwCalls = 0

GwInit ==
    /\ apiKeyOk \in BOOLEAN
    /\ gwOp = "" /\ gwPc = "idle" /\ gwTimer = FALSE
    /\ gwIssued = FALSE /\ gwResult = NoResult /\ gwCalls = 0
    /\ now = 0 /\ rlCfg = ApiConfig
    /\ buckets \in {NoBuckets} \cup {[k \in {key} |-> ExhaustedBucket] : key \in OpKeys}
    /\ allowedLog = [k \in RLKeys |-> <<>>] /\ rlLast = NoAnswer /\ rlCalls = 0

gwRest == <<parseVars, treeVars, appVars, cacheVars, errVars, now, rlCfg, allowedLog, rlLast, rlCalls>>

\* The call leaves through its catch block.
GwCaught(error) ==
    /\ gwResult' = GatewayCatch(gwOp, error)
    /\ gwPc' = IF GatewayOps[gwOp].catch = "throw" THEN "threw" ELSE "returned"
    /\ gwTimer' = FALSE

\* An operation is called: checkRateLimit, getApiKey, and the request is sent.
GwCall(op) ==
    /\ gwPc \in {"idle", "returned", "threw"}
    /\ gwCalls < MaxGwCalls
    /\ gwCalls' = gwCalls + 1
    /\ gwOp' = op
    /\ LET e == GatewayEnter(buckets, op, now, apiKeyOk)
       IN  /\ buckets' = e.buckets
           /\ IF e.ok
              THEN /\ gwPc' = "awaiting"
                   /\ gwIssued' = TRUE
                   /\ gwTimer' = UsesTimeout(op)
                   /\ gwResult' = NoResult
              ELSE /\ gwResult' = GatewayCatch(op, e.error)
                   /\ gwPc' = IF GatewayOps[op].catch = "throw" THEN "threw"
                              ELSE "returned"
                   /\ gwTimer' = FALSE
                   /\ gwIssued' = FALSE
    /\ UNCHANGED <<apiKeyOk, gwRest>>

\* generateContent resolves.
GwRespond(reply) ==
    /\ gwPc = "awaiting" /\ GatewayOps[gwOp].out # "video"
    /\ gwResult' = GatewayResult(gwOp, reply)
    /\ gwPc' = IF gwResult'.kind = "error" THEN "threw" ELSE "returned"
    /\ gwTimer' = FALSE
    /\ UNCHANGED <<apiKeyOk, gwOp, gwIssued, gwCalls, buckets, gwRest>>

\* A request of the call (generateContent, generateVideos, getVideosOperation,
\* the download) is rejected.
GwReject(why) ==
    /\ gwPc \in {"awaiting", "polling", "downloading"}
    /\ GwCaught(PlainError(why))
    /\ UNCHANGED <<apiKeyOk, gwOp, gwIssued, gwCalls, buckets, gwRest>>

\* withTimeout's timer fires first.
GwTimeout ==
    /\ gwPc = "awaiting" /\ gwTimer
    /\ GwCaught(AppError("API_ERROR", 504))
    /\ UNCHANGED <<apiKeyOk, gwOp, gwIssued, gwCalls, buckets, gwRest>>

\* generateVisionVideo, once operation.done: the download link is read.
GwVideoFinished(hasLink) ==
    IF hasLink
    THEN gwPc' = "downloading" /\ UNCHANGED <<gwResult, gwTimer>>
    ELSE GwCaught(AppError("API_ERROR", 500))

\* generateVideos resolves with an operation.
GwVideoSubmitted(done, hasLink) ==
    /\ gwPc = "awaiting" /\ GatewayOps[gwOp].out = "video"
    /\ IF done THEN GwVideoFinished(hasLink)
       ELSE gwPc' = "sleeping" /\ UNCHANGED <<gwResult, gwTimer>>
    /\ UNCHANGED <<apiKeyOk, gwOp, gwIssued, gwCalls, buckets, gwRest>>

\* while (!operation.done): the 5000 ms sleep ends and the operation is polled.
GwVideoPoll ==
    /\ gwPc = "sleeping"
    /\ gwPc' = "polling"
    /\ UNCHANGED <<apiKeyOk, gwOp, gwTimer, gwIssued, gwResult, gwCalls, buckets, gwRest>>

\* getVideosOperation resolves.
GwVideoPolled(done, hasLink) ==
    /\ gwPc = "polling"
    /\ IF done THEN GwVideoFinished(hasLink)
       ELSE gwPc' = "sleeping" /\ UNCHANGED <<gwResult, gwTimer>>
    /\ UNCHANGED <<apiKeyOk, gwOp, gwIssued, gwCalls, buckets, gwRest>>

\* The download resolves: URL.createObjectURL(blob) is returned.
GwVideoDownloaded ==
    /\ gwPc = "downloading"
    /\ gwResult' = Value("video")
    /\ gwPc' = "returned"
    /\ UNCHANGED <<apiKeyOk, gwOp, gwTimer, gwIssued, gwCalls, buckets, gwRest>>

(***************************************************************************)
(* The actions of the App specification.  Every await of handleImport is a *)
(* position of the run; an action is what runs between two awaits.         *)
(***************************************************************************)
appCfg == <<authEnabled, fastMode>>
appRest ==
    <<parseVars, treeVars, gwVars, cacheVars, errVars, insightVars, now, rlCfg, allowedLog, rlLast,
      rlCalls>>
exposed == <<loading, repo, structure, analysis, onboardingGuide, onboardingLoading,
             nodes, edges>>

AddLog(r, messages) == terminalLogs' = terminalLogs \cup {<<r, m>> : m \in messages}
Issue(r, requests) == netCalls' = netCalls \cup {<<r, q[1], q[2]>> : q \in requests}

\* n more requests fail.
Fault(n) == faults + n <= MaxFaults /\ faults' = faults + n

\* getCurrentUser() has settled: setAuthUser(user), setAuthLoading(false).
AuthReady(user) ==
    /\ authLoading
    /\ authLoading' = FALSE
    /\ authUser' = user
    /\ UNCHANGED <<appCfg, runs, exposed, terminalLogs, alerts, netCalls, timers,
                   saves, buckets, appRest>>
    /\ UNCHANGED faults

\* A catch block that leaves the loading state as it is.
FailKeepsLoading(r, messages) ==
    /\ runs' = [runs EXCEPT ![r].pc = "failed"]
    /\ onboardingLoading' = FALSE
    /\ UNCHANGED loading
    /\ AddLog(r, messages \cup {"Error"})
    /\ alerts' = alerts \cup {<<r, "failed">>}

\* The catch block of handleImport.
Fail(r, messages) ==
    /\ runs' = [runs EXCEPT ![r].pc = "failed"]
    /\ onboardingLoading' = FALSE
    /\ loading' = FALSE
    /\ AddLog(r, messages \cup {"Error"})
    /\ alerts' = alerts \cup {<<r, "failed">>}

\* const parsed = parseGithubUrl(url) and, when it resolves, the reset of the
\* exposed state and the first request.
Begin(r, rs, messages) ==
    IF ~parseGithubUrl(rs[r].url).ok
    THEN /\ runs' = [rs EXCEPT ![r].pc = "rejected"]
         /\ AddLog(r, messages \cup {"Invalid GitHub URL"})
         /\ UNCHANGED <<exposed, alerts, timers, saves, buckets>>
    ELSE /\ runs' = [rs EXCEPT ![r].pc = "details"]
         /\ loading' = TRUE
         /\ repo' = 0
         /\ analysis' = NoAnalysis
         /\ onboardingGuide' = NoGuide
         /\ AddLog(r, messages \cup {"Fetching repository..."})
         /\ UNCHANGED <<structure, onboardingLoading, nodes, edges, alerts, timers,
                        saves, buckets>>

\* The form is submitted with url in the input.
Submit(r, url) ==
    /\ runs[r].pc = "idle"
    /\ \A q \in Runs : q < r => runs[q].pc # "idle"
    /\ LET rs == [runs EXCEPT ![r].url = url, ![r].user = authUser]
       IN  IF authEnabled /\ authLoading
           THEN /\ runs' = [rs EXCEPT ![r].pc = "rejected"]
                /\ AddLog(r, {"Auth session is loading"})
                /\ UNCHANGED <<exposed, alerts, netCalls, timers, saves, buckets>>
           ELSE IF authEnabled /\ authUser = ""
           THEN /\ runs' = [rs EXCEPT ![r].pc = "rejected"]
                /\ AddLog(r, {"Sign in required"})
                /\ alerts' = alerts \cup {<<r, "sign-in">>}
                /\ UNCHANGED <<exposed, netCalls, timers, saves, buckets>>
           ELSE IF authEnabled
           THEN /\ runs' = [rs EXCEPT ![r].pc = "usage"]
                /\ Issue(r, {<<"store", "canAnalyzeToday">>})
                /\ UNCHANGED <<exposed, terminalLogs, alerts, timers, saves, buckets>>
           ELSE /\ Begin(r, rs, {})
                /\ IF parseGithubUrl(url).ok
                   THEN Issue(r, {<<"github", "fetchRepoDetails">>})
                   ELSE UNCHANGED netCalls
    /\ UNCHANGED <<appCfg, authLoading, authUser, appRest>>
    /\ UNCHANGED faults

\* A usage check that lets the run start when the check itself fails.
UsageDoneFailOpen(r, outcome) ==
    /\ runs[r].pc = "usage"
    /\ IF outcome # "limit"
       THEN /\ Begin(r, runs, IF outcome = "allowed" THEN {"Daily usage"}
                               ELSE {"Usage check failed"})
            /\ IF parseGithubUrl(runs[r].url).ok
               THEN Issue(r, {<<"github", "fetchRepoDetails">>})
               ELSE UNCHANGED netCalls
       ELSE /\ runs' = [runs EXCEPT ![r].pc = "rejected"]
            /\ AddLog(r, {"Daily analysis limit reached"})
            /\ alerts' = alerts \cup {<<r, outcome>>}
            /\ UNCHANGED <<exposed, netCalls, timers, saves, buckets>>
    /\ UNCHANGED <<appCfg, authLoading, authUser, appRest>>
    /\ Fault(IF outcome = "allowed" THEN 0 ELSE 1)

\* canAnalyzeToday has settled.
UsageDone(r, outcome) ==
    /\ runs[r].pc = "usage"
    /\ IF outcome = "allowed"
       THEN /\ Begin(r, runs, {"Daily usage"})
            /\ IF parseGithubUrl(runs[r].url).ok
               THEN Issue(r, {<<"github", "fetchRepoDetails">>})
               ELSE UNCHANGED netCalls
       ELSE /\ runs' = [runs EXCEPT ![r].pc = "rejected"]
            /\ AddLog(r, IF outcome = "limit" THEN {"Daily analysis limit reached"}
                         ELSE {"Usage check failed"})
            /\ alerts' = alerts \cup {<<r, outcome>>}
            /\ UNCHANGED <<exposed, netCalls, timers, saves, buckets>>
    /\ UNCHANGED <<appCfg, authLoading, authUser, appRest>>
    /\ Fault(IF outcome = "allowed" THEN 0 ELSE 1)

\* fetchRepoDetails has settled: the README, the commits, the contributors and
\* the tree are requested.
DetailsDone(r, ok) ==
    /\ runs[r].pc = "details"
    /\ IF ok
       THEN /\ runs' = [runs EXCEPT ![r].pc = "tree", ![r].readme = "pending"]
            /\ Issue(r, {<<"github", "fetchFileContent">>,
                         <<"github", "fetchRecentCommits">>,
                         <<"github", "fetchCodeOwnership">>,
                         <<"github", "fetchRepoStructure">>})
            /\ UNCHANGED <<exposed, terminalLogs, alerts>>
       ELSE /\ Fail(r, {})
            /\ UNCHANGED <<repo, structure, analysis, onboardingGuide, nodes, edges,
                           netCalls>>
    /\ UNCHANGED <<appCfg, authLoading, authUser, timers, saves, buckets, appRest>>
    /\ Fault(IF ok THEN 0 ELSE 1)

\* A README failure that reaches the catch block of handleImport.
ReadmeSettledFatal(r, ok) ==
    /\ runs[r].readme = "pending"
    /\ IF ok
       THEN /\ runs' = [runs EXCEPT ![r].readme = "loaded"]
            /\ AddLog(r, {"README loaded"})
            /\ UNCHANGED <<exposed, alerts>>
       ELSE /\ Fail(r, {"No README found"})
            /\ UNCHANGED <<repo, structure, analysis, onboardingGuide, nodes, edges>>
    /\ UNCHANGED <<appCfg, authLoading, authUser, netCalls, timers, saves, buckets,
                   appRest>>
    /\ Fault(IF ok THEN 0 ELSE 1)

\* readmePromise settles: the content, or '' when the fetch failed.
ReadmeSettled(r, ok) ==
    /\ runs[r].readme = "pending"
    /\ runs' = [runs EXCEPT ![r].readme = IF ok THEN "loaded" ELSE "empty"]
    /\ AddLog(r, IF ok THEN {"README loaded"} ELSE {"No README found"})
    /\ UNCHANGED <<appCfg, authLoading, authUser, exposed, alerts, netCalls, timers,
                   saves, buckets, appRest>>
    /\ Fault(IF ok THEN 0 ELSE 1)

\* fetchRepoStructure has settled.
TreeDone(r, ok) ==
    /\ runs[r].pc = "tree"
    /\ IF ok
       THEN /\ runs' = [runs EXCEPT ![r].pc = "readme"]
            /\ UNCHANGED <<exposed, terminalLogs, alerts>>
       ELSE /\ Fail(r, {})
            /\ UNCHANGED <<repo, structure, analysis, onboardingGuide, nodes, edges>>
    /\ UNCHANGED <<appCfg, authLoading, authUser, netCalls, timers, saves, buckets,
                   appRest>>
    /\ Fault(IF ok THEN 0 ELSE 1)

\* An analysis that does not await readmePromise.
StartAnalysisHasty(r) ==
    /\ runs[r].pc = "readme"
    /\ LET e == GatewayEnter(buckets, "analyzeRepository", now, apiKeyOk)
       IN  /\ buckets' = e.buckets
           /\ IF e.ok THEN Issue(r, {<<"gemini", "analyzeRepository">>})
              ELSE UNCHANGED netCalls
    /\ runs' = [runs EXCEPT ![r].pc = "analysis"]
    /\ AddLog(r, {"Starting AI analysis"})
    /\ UNCHANGED <<appCfg, authLoading, authUser, exposed, alerts, timers, saves, appRest>>
    /\ UNCHANGED faults

\* await readmePromise is over: analyzeRepository is called.  When checkRateLimit
\* or getApiKey throws, no request is sent and the promise is already rejected.
StartAnalysis(r) ==
    /\ runs[r].pc = "readme"
    /\ runs[r].readme \in {"loaded", "empty"}
    /\ LET e == GatewayEnter(buckets, "analyzeRepository", now, apiKeyOk)
       IN  /\ buckets' = e.buckets
           /\ IF e.ok THEN Issue(r, {<<"gemini", "analyzeRepository">>})
              ELSE UNCHANGED netCalls
    /\ runs' = [runs EXCEPT ![r].pc = "analysis"]
    /\ AddLog(r, {"Starting AI analysis"})
    /\ UNCHANGED <<appCfg, authLoading, authUser, exposed, alerts, timers, saves, appRest>>
    /\ UNCHANGED faults

\* How a call of op by run r can end: the replies and rejections of the
\* service and, for a call under withTimeout, the timeout, when the request
\* was sent; "refused" when checkRateLimit or getApiKey threw.
Outcomes(r, op) ==
    IF <<r, "gemini", op>> \in netCalls
    THEN Replies \cup Rejections \cup (IF UsesTimeout(op) THEN {"timeout"} ELSE {})
    ELSE {"refused"}

\* What the call hands to its caller.
Settled(op, outcome) ==
    IF outcome \in Replies THEN GatewayResult(op, outcome)
    ELSE IF outcome \in Rejections THEN GatewayCatch(op, PlainError(outcome))
    ELSE IF outcome = "timeout" THEN GatewayCatch(op, AppError("API_ERROR", 504))
    ELSE GatewayCatch(op, AppError("RATE_LIMIT_EXCEEDED", 429))

\* analyzeRepository has settled.  With a value: setAnalysis, saveAnalysisRecord,
\* setRepo, setStructure, the graph effect, and up to the next await, which is
\* generateOnboardingGuide in both modes.
AnalysisDone(r, outcome, g) ==
    /\ runs[r].pc = "analysis"
    /\ outcome \in Outcomes(r, "analyzeRepository")
    /\ LET result == Settled("analyzeRepository", outcome)
       IN  IF result.kind = "error"
           THEN /\ Fail(r, {"AI Analysis failed"})
                /\ UNCHANGED <<repo, structure, analysis, onboardingGuide, nodes, edges,
                               netCalls, timers, saves, buckets>>
           ELSE LET res == Analysis(r, result.shape, g)
                    graph == GraphAfter(res, r, [nodes |-> nodes, edges |-> edges])
                    saving == authEnabled /\ runs[r].user # ""
                    e == GatewayEnter(buckets, "generateOnboardingGuide", now, apiKeyOk)
                IN  /\ analysis' = res
                    /\ saves' = IF saving
                                THEN [saves EXCEPT ![r] = [state |-> "pending",
                                                           analysis |-> res]]
                                ELSE saves
                    /\ repo' = r
                    /\ structure' = r
                    /\ nodes' = graph.nodes
                    /\ edges' = graph.edges
                    /\ timers' = IF fastMode THEN timers \cup {r} ELSE timers
                    /\ onboardingLoading' = TRUE
                    /\ buckets' = e.buckets
                    /\ netCalls' = netCalls
                          \cup (IF saving THEN {<<r, "store", "saveAnalysisRecord">>} ELSE {})
                          \cup (IF e.ok THEN {<<r, "gemini", "generateOnboardingGuide">>}
                                ELSE {})
                    /\ runs' = [runs EXCEPT ![r].pc = "guide", ![r].released = fastMode]
                    /\ AddLog(r, {"AI analysis complete"})
                    /\ UNCHANGED <<loading, onboardingGuide, alerts>>
    /\ UNCHANGED <<appCfg, authLoading, authUser, appRest>>
    /\ Fault(IF outcome \in {"valid", "refused"} THEN 0 ELSE 1)

\* A failed write that is shown to the user.
SaveDoneSurfaced(r, ok) ==
    /\ saves[r].state = "pending"
    /\ saves' = [saves EXCEPT ![r].state = IF ok THEN "saved" ELSE "failed"]
    /\ AddLog(r, IF ok THEN {"Analysis saved"} ELSE {"Failed to save analysis"})
    /\ alerts' = IF ok THEN alerts ELSE alerts \cup {<<r, "failed">>}
    /\ UNCHANGED <<appCfg, authLoading, authUser, runs, exposed, netCalls,
                   timers, buckets, appRest>>
    /\ Fault(IF ok THEN 0 ELSE 1)

\* saveAnalysisRecord has settled.
SaveDone(r, ok) ==
    /\ saves[r].state = "pending"
    /\ saves' = [saves EXCEPT ![r].state = IF ok THEN "saved" ELSE "failed"]
    /\ AddLog(r, IF ok THEN {"Analysis saved"} ELSE {"Failed to save analysis"})
    /\ UNCHANGED <<appCfg, authLoading, authUser, runs, exposed, alerts, netCalls,
                   timers, buckets, appRest>>
    /\ Fault(IF ok THEN 0 ELSE 1)

\* A guide step whose failure is fatal in both modes.
GuideDoneFatal(r, outcome) ==
    /\ runs[r].pc = "guide"
    /\ outcome \in Outcomes(r, "generateOnboardingGuide")
    /\ LET result == Settled("generateOnboardingGuide", outcome)
       IN  IF result.kind = "value"
           THEN /\ onboardingGuide' = Guide(r, result.shape)
                /\ onboardingLoading' = FALSE
                /\ runs' = [runs EXCEPT ![r].pc = "commits"]
                /\ AddLog(r, {"Onboarding guide ready", "Loading team & activity data"})
                /\ UNCHANGED <<loading, alerts>>
           ELSE /\ Fail(r, {})
                /\ UNCHANGED onboardingGuide
    /\ UNCHANGED <<appCfg, authLoading, authUser, repo, structure, analysis, nodes, edges,
                   netCalls, timers, saves, buckets, appRest>>
    /\ Fault(IF outcome \in {"valid", "refused"} THEN 0 ELSE 1)

\* generateOnboardingGuide has settled.
GuideDone(r, outcome) ==
    /\ runs[r].pc = "guide"
    /\ outcome \in Outcomes(r, "generateOnboardingGuide")
    /\ LET result == Settled("generateOnboardingGuide", outcome)
       IN  IF result.kind = "value"
           THEN /\ onboardingGuide' = Guide(r, result.shape)
                /\ onboardingLoading' = FALSE
                /\ runs' = [runs EXCEPT ![r].pc = "commits"]
                /\ AddLog(r, {"Onboarding guide ready", "Loading team & activity data"})
                /\ UNCHANGED <<loading, alerts>>
           ELSE IF fastMode
           THEN /\ onboardingLoading' = FALSE
                /\ runs' = [runs EXCEPT ![r].pc = "commits"]
                /\ AddLog(r, {"Onboarding guide failed", "Loading team & activity data"})
                /\ UNCHANGED <<onboardingGuide, loading, alerts>>
           ELSE /\ Fail(r, {})
                /\ UNCHANGED onboardingGuide
    /\ UNCHANGED <<appCfg, authLoading, authUser, repo, structure, analysis, nodes, edges,
                   netCalls, timers, saves, buckets, appRest>>
    /\ Fault(IF outcome \in {"valid", "refused"} THEN 0 ELSE 1)

\* The end of the pipeline: in the full mode the 800 ms timer is armed.
Finish(r, messages) ==
    /\ runs' = [runs EXCEPT ![r].pc = "complete"]
    /\ timers' = IF fastMode THEN timers ELSE timers \cup {r}
    /\ AddLog(r, messages \cup (IF fastMode THEN {} ELSE {"All insights loaded"}))

\* The three enrichments that are called once the commits are there: each
\* passes checkRateLimit and getApiKey in turn.
EnterEnrichments(bk, t, keyOk) ==
    LET e1 == GatewayEnter(bk, "analyzeCodeOwnership", t, keyOk)
        e2 == GatewayEnter(e1.buckets, "analyzeRecentActivity", t, keyOk)
        e3 == GatewayEnter(e2.buckets, "analyzeTestingSetup", t, keyOk)
    IN  [buckets |-> e3.buckets,
         sent |-> (IF e1.ok THEN {"analyzeCodeOwnership"} ELSE {})
                  \cup (IF e2.ok THEN {"analyzeRecentActivity"} ELSE {})
                  \cup (IF e3.ok THEN {"analyzeTestingSetup"} ELSE {})]

\* Promise.all([recentCommitsPromise, contributorsPromise]) has settled: some
\* tells whether recentCommits.length > 0 (a failed fetch yields []).
CommitsReady(r, some) ==
    /\ runs[r].pc = "commits"
    /\ IF some
       THEN LET e == EnterEnrichments(buckets, now, apiKeyOk)
            IN  /\ buckets' = e.buckets
                /\ netCalls' = netCalls \cup {<<r, "gemini", op>> : op \in e.sent}
                /\ runs' = [runs EXCEPT ![r].pc = "enrich"]
                /\ UNCHANGED <<terminalLogs, timers>>
       ELSE /\ Finish(r, {"Could not fetch recent commits"})
            /\ UNCHANGED <<buckets, netCalls>>
    /\ UNCHANGED <<appCfg, authLoading, authUser, exposed, alerts, saves, appRest>>
    /\ Fault(IF some THEN 0 ELSE 1)

\* What an enrichment hands back: its catch block turns every failure into
\* the fixed value.
Enriched(r, op, outcome) ==
    IF outcome \in Outcomes(r, op) /\ Settled(op, outcome).kind = "value"
       /\ Settled(op, outcome).shape # "fallback"
    THEN "value" ELSE "fallback"

\* Promise.all of the three enrichments has settled: the merge.
EnrichDone(r, out) ==
    /\ runs[r].pc = "enrich"
    /\ \A op \in EnrichOps : out[op] \in Outcomes(r, op)
    /\ onboardingGuide' =
           MergeEnrichments(onboardingGuide, [op \in EnrichOps |-> Enriched(r, op, out[op])])
    /\ Finish(r, IF fastMode THEN {"Background insights loaded"} ELSE {})
    /\ UNCHANGED <<appCfg, authLoading, authUser, loading, repo, structure, analysis,
                   onboardingLoading, nodes, edges, alerts, netCalls, saves, buckets,
                   appRest>>
    /\ Fault(Cardinality({op \in EnrichOps : out[op] \notin {"valid", "refused"}}))

\* A timer armed by setTimeout(() => setLoading(false), ...) fires.
LoadingTimer(r) ==
    /\ r \in timers
    /\ timers' = timers \ {r}
    /\ loading' = FALSE
    /\ UNCHANGED <<appCfg, authLoading, authUser, runs, repo, structure, analysis,
                   onboardingGuide, onboardingLoading, nodes, edges, terminalLogs, alerts,
                   netCalls, saves, buckets, appRest>>
    /\ UNCHANGED faults

(***************************************************************************)
(* fetchProjectInsights: called from the insights tab and button.  It      *)
(* reads repo from the render in which it was called and keeps it across   *)
(* its two awaits.  One call per repository is followed.                   *)
(***************************************************************************)
insightRest ==
    <<parseVars, treeVars, gwVars, cacheVars, errVars, now, rlCfg, allowedLog, rlLast, rlCalls>>

InsightFetches ==
    {<<"github", f>> : f \in {"fetchIssues", "fetchPullRequests", "fetchContributors",
                               "analyzeDependencies", "fetchLanguageStats"}}

\* if (!repo) return; setInsightsLoading(true); addLog; the five fetches of
\* the first Promise.all are issued.
FetchProjectInsights ==
    /\ repo # 0
    /\ insightCalls[repo] = "idle"
    /\ insightCalls' = [insightCalls EXCEPT ![repo] = "fetching"]
    /\ insightsLoading' = TRUE
    /\ AddLog(repo, {"Analyzing project health and team dynamics..."})
    /\ Issue(repo, InsightFetches)
    /\ UNCHANGED <<appCfg, authLoading, authUser, runs, exposed, alerts, timers, saves,
                   faults, insights, buckets, insightRest>>

\* checkRateLimit and getApiKey of the three analyses, in the order of the
\* second Promise.all.
EnterInsightAnalyses(bk, t, keyOk) ==
    LET e1 == GatewayEnter(bk, "analyzeIssues", t, keyOk)
        e2 == GatewayEnter(e1.buckets, "analyzePullRequests", t, keyOk)
        e3 == GatewayEnter(e2.buckets, "analyzeTeamDynamics", t, keyOk)
    IN  [buckets |-> e3.buckets,
         sent |-> (IF e1.ok THEN {"analyzeIssues"} ELSE {})
                  \cup (IF e2.ok THEN {"analyzePullRequests"} ELSE {})
                  \cup (IF e3.ok THEN {"analyzeTeamDynamics"} ELSE {})]

\* The first Promise.all has settled.  A fetch that rejected ends the call in
\* the catch block; otherwise the three analyses are called.
InsightsFetched(r, ok) ==
    /\ insightCalls[r] = "fetching"
    /\ IF ok
       THEN LET e == EnterInsightAnalyses(buckets, now, apiKeyOk)
            IN  /\ buckets' = e.buckets
                /\ netCalls' = netCalls \cup {<<r, "gemini", op>> : op \in e.sent}
                /\ insightCalls' = [insightCalls EXCEPT ![r] = "analyzing"]
                /\ UNCHANGED <<terminalLogs, insightsLoading>>
       ELSE /\ AddLog(r, {"Failed to fetch insights"})
            /\ insightsLoading' = FALSE
            /\ insightCalls' = [insightCalls EXCEPT ![r] = "done"]
            /\ UNCHANGED <<buckets, netCalls>>
    /\ UNCHANGED <<appCfg, authLoading, authUser, runs, exposed, alerts, timers, saves,
                   insights, insightRest>>
    /\ Fault(IF ok THEN 0 ELSE 1)

\* The second Promise.all has settled (the analyses never throw):
\* setInsights(nextInsights), addLog, setInsightsLoading(false).
InsightsDone(r) ==
    /\ insightCalls[r] = "analyzing"
    /\ insights' = r
    /\ insightsLoading' = FALSE
    /\ insightCalls' = [insightCalls EXCEPT ![r] = "done"]
    /\ AddLog(r, {"Project insights synthesized successfully"})
    /\ UNCHANGED <<appCfg, authLoading, authUser, runs, exposed, alerts, netCalls, timers,
                   saves, faults, buckets, insightRest>>

(***************************************************************************)
(* The specifications.                                                     *)
(***************************************************************************)
InitParse == ParseInit /\ TreeIdle /\ RLIdle /\ GwIdle /\ AppIdle /\ CacheIdle /\ ErrIdle
NextParse == ParseReturn
SpecParse == InitParse /\ [][NextParse]_vars

InitTree == TreeInit /\ ParseIdle /\ RLIdle /\ GwIdle /\ AppIdle /\ CacheIdle /\ ErrIdle
NextTree == TreeStep
SpecTree == InitTree /\ [][NextTree]_vars

InitRL == RLInit /\ ParseIdle /\ TreeIdle /\ GwIdle /\ AppIdle /\ CacheIdle /\ ErrIdle
NextRL ==
    \/ Tick
    \/ \E key \in RLKeys : IsAllowedCall(key)
    \/ \E key \in RLKeys : Reset(key)
    \/ ResetAll
SpecRL == InitRL /\ [][NextRL]_vars

InitRLDbl == DblInit /\ ParseIdle /\ TreeIdle /\ GwIdle /\ AppIdle /\ CacheIdle /\ ErrIdle
NextRLDbl ==
    \/ TickDbl
    \/ \E key \in DblKeys : IsAllowedDblCall(key)
    \/ \E key \in DblKeys : Reset(key)
    \/ ResetAll
SpecRLDbl == InitRLDbl /\ [][NextRLDbl]_vars

InitCache == CacheInit /\ ParseIdle /\ TreeIdle /\ RLIdle /\ GwIdle /\ AppIdle /\ ErrIdle
NextCache ==
    \/ CacheTick
    \/ \E key \in CacheKeys, data \in CacheValues : Set(key, data)
    \/ \E key \in CacheKeys : Get(key)
    \/ \E key \in CacheKeys : Has(key)
    \/ \E key \in CacheKeys : Delete(key)
    \/ Clear
    \/ Size
SpecCache == InitCache /\ [][NextCache]_vars

InitGateway == GwInit /\ ParseIdle /\ TreeIdle /\ AppIdle /\ CacheIdle /\ ErrIdle
NextGateway ==
    \/ \E op \in OpNames : GwCall(op)
    \/ \E reply \in Replies : GwRespond(reply)
    \/ \E why \in Rejections : GwReject(why)
    \/ GwTimeout
    \/ \E done, hasLink \in BOOLEAN : GwVideoSubmitted(done, hasLink)
    \/ GwVideoPoll
    \/ \E done, hasLink \in BOOLEAN : GwVideoPolled(done, hasLink)
    \/ GwVideoDownloaded
SpecGateway == InitGateway /\ [][NextGateway]_vars

\* The service answers every request it has received and timers fire.
SpecGatewayFair ==
    /\ SpecGateway
    /\ WF_vars(GwVideoPoll)
    /\ WF_vars(\E done, hasLink \in BOOLEAN : GwVideoPolled(done, hasLink))
    /\ WF_vars(\E done, hasLink \in BOOLEAN : GwVideoSubmitted(done, hasLink))
    /\ WF_vars(\E reply \in Replies : GwRespond(reply))
    /\ WF_vars(GwVideoDownloaded)
    /\ WF_vars(GwTimeout)

Init ==
    /\ AppInit /\ ParseIdle /\ TreeIdle /\ CacheIdle /\ ErrIdle
    /\ apiKeyOk \in BOOLEAN /\ gwOp = "" /\ gwPc = "idle" /\ gwTimer = FALSE
    /\ gwIssued = FALSE /\ gwResult = NoResult /\ gwCalls = 0
    /\ now = 0 /\ rlCfg = ApiConfig
    /\ buckets = NoBuckets
    /\ allowedLog = [k \in RLKeys |-> <<>>] /\ rlLast = NoAnswer /\ rlCalls = 0
Next ==
    \/ \E user \in {"", "u1"} : AuthReady(user)
    \/ \E r \in Runs, url \in Urls : Submit(r, url)
    \/ \E r \in Runs, outcome \in {"allowed", "limit", "error"} : UsageDone(r, outcome)
    \/ \E r \in Runs, ok \in BOOLEAN : DetailsDone(r, ok)
    \/ \E r \in Runs, ok \in BOOLEAN : ReadmeSettled(r, ok)
    \/ \E r \in Runs, ok \in BOOLEAN : TreeDone(r, ok)
    \/ \E r \in Runs : StartAnalysis(r)
    \/ \E r \in Runs, outcome \in Replies \cup Rejections \cup {"timeout", "refused"},
          g \in Graphs : AnalysisDone(r, outcome, g)
    \/ \E r \in Runs, ok \in BOOLEAN : SaveDone(r, ok)
    \/ \E r \in Runs, outcome \in Replies \cup Rejections \cup {"refused"} :
          GuideDone(r, outcome)
    \/ \E r \in Runs, some \in BOOLEAN : CommitsReady(r, some)
    \/ \E r \in Runs, out \in [EnrichOps -> {"valid", "fetch", "refused"}] :
          EnrichDone(r, out)
    \/ \E r \in Runs : LoadingTimer(r)
Spec == Init /\ [][Next]_vars

\* Timers armed by setTimeout fire.
SpecTimers == Spec /\ \A r \in Runs : WF_vars(LoadingTimer(r))

\* A continuation of run r whose promise has settled runs: the services answer
\* the requests of the pipeline.
RunStep(r) ==
    \/ \E ok \in BOOLEAN : DetailsDone(r, ok)
    \/ \E ok \in BOOLEAN : ReadmeSettled(r, ok)
    \/ \E ok \in BOOLEAN : TreeDone(r, ok)
    \/ StartAnalysis(r)
    \/ \E outcome \in Replies \cup Rejections \cup {"timeout", "refused"}, g \in Graphs :
          AnalysisDone(r, outcome, g)
    \/ \E outcome \in Replies \cup Rejections \cup {"refused"} : GuideDone(r, outcome)
    \/ \E some \in BOOLEAN : CommitsReady(r, some)
    \/ \E out \in [EnrichOps -> {"valid", "fetch", "refused"}] : EnrichDone(r, out)

\* The component with one submission only, whose requests are answered.
NextSolo ==
    \/ \E user \in {"", "u1"} : AuthReady(user)
    \/ \E url \in Urls : Submit(1, url)
    \/ \E outcome \in {"allowed", "limit", "error"} : UsageDone(1, outcome)
    \/ RunStep(1)
    \/ \E ok \in BOOLEAN : SaveDone(1, ok)
    \/ LoadingTimer(1)
SpecSolo == Init /\ [][NextSolo]_vars /\ WF_vars(RunStep(1))

\* The component with the insights tab in use, when authentication is not
\* configured (isAuthConfigured() is false: no session is loaded, no usage
\* check is made and no record is saved).
InitInsights == Init /\ ~authEnabled
NextInsights ==
    \/ \E r \in Runs, url \in Urls : Submit(r, url)
    \/ \E r \in Runs : RunStep(r)
    \/ \E r \in Runs : LoadingTimer(r)
    \/ FetchProjectInsights
    \/ \E r \in Runs, ok \in BOOLEAN : InsightsFetched(r, ok)
    \/ \E r \in Runs : InsightsDone(r)
SpecInsights == InitInsights /\ [][NextInsights]_vars

\* handleError applied to a thrown value, and to its own result.
InitErr ==
    /\ ErrInit /\ ParseIdle /\ TreeIdle /\ RLIdle /\ GwIdle /\ AppIdle /\ CacheIdle
NextErr == HandleErrorCall \/ HandleErrorAgain
SpecErr == InitErr /\ [][NextErr]_vars

(***************************************************************************)
(* Claims about parseGithubUrl, fetchRepoStructure and RateLimiter.        *)
(***************************************************************************)

\* The non-empty "/"-separated segments that follow the head of a reference.
RefSegments(url) ==
    LET t == Trim(url)
    IN  IF t = <<>> THEN <<>> ELSE FilterNonEmpty(SplitSlash(Tail(t)))

\* A reference of the provider that names more than an owner and a name.
HasExtraSegments(url) ==
    LET t == Trim(url)
    IN  /\ t # <<>>
        /\ Head(t) \in GithubHeads \cup {SshHead}
        /\ " " \notin Range(t)
        /\ Len(RefSegments(url)) > 2

\* C10: parseGithubUrl resolves a reference only when it names exactly an owner
\* and a repository name: an HTTPS URL whose path has more than two segments, or
\* an SSH-style string with further "/"-separated segments after the name, does
\* not resolve.
C10_ExactlyOwnerAndName ==
    (parsePc = "returned" /\ HasExtraSegments(parseIn)) => parseOut = NoMatch

\* C2: tree reconstruction is order-independent: when fetchRepoStructure returns,
\* every processed entry whose parent directory is also among the processed
\* entries is a child of that parent, wherever the parent stands in the list.
C2_OrderIndependent ==
    treeDone =>
        \A i, j \in 1..Len(treeItems) :
            (/\ Len(treeItems[i].path) > 1
             /\ treeItems[j].path = ParentPath(treeItems[i].path)
             /\ treeItems[j].type = "tree")
            => treeItems[i].path \in Range(treeKids[treeItems[j].path])

\* The calls on key answered allowed at a time in [s, s + windowMs).
AllowedIn(key, s) ==
    Cardinality({i \in 1..Len(allowedLog[key]) :
                    s <= allowedLog[key][i] /\ allowedLog[key][i] < s + rlCfg.windowMs})

\* C3: for any key and any sequence of isAllowed calls at non-decreasing times,
\* the calls answered allowed within any interval of length windowMs are at most
\* maxRequests.
C3_AtMostCapacityPerWindow ==
    \A key \in RLKeys : \A s \in 0..MaxTime : AllowedIn(key, s) <= rlCfg.maxRequests

(***************************************************************************)
(* Claims about the inference gateway.                                     *)
(***************************************************************************)

\* C6: every gateway operation races its request against the configured
\* timeout: while a request of an operation is outstanding, the timer that ends
\* the operation with a timeout failure is armed, so a service that never
\* responds cannot keep the operation from terminating.
C6_EveryRequestRacesTimeout ==
    gwPc \in {"awaiting", "polling", "downloading"} => gwTimer

\* C7: the polling loop of generateVisionVideo is bounded: once the operation is
\* waiting for the submitted job, it terminates, with the video or a failure,
\* even if the job never reports done.
C7_VideoPollingTerminates ==
    (gwOp = "generateVisionVideo" /\ gwPc = "sleeping") ~> (gwPc \in {"returned", "threw"})

\* C8: a reply that does not satisfy the declared output shape (unparseable
\* text, empty text, an object without a required field) is never returned as a
\* result: what an operation with a declared shape returns has every required
\* field.
C8_MismatchNeverReturned ==
    (gwPc = "returned" /\ gwOp \in ShapedOps) => gwResult.shape \in {"full", "fallback"}

(***************************************************************************)
(* Claims about handleImport.                                              *)
(***************************************************************************)

\* The run has passed validation and reset the exposed state.
Started(r) == runs[r].pc \notin {"idle", "usage", "rejected"}

\* C1: once a later submission has started, no result of an earlier run is
\* applied to the exposed state: the report, the repository and the guide that
\* are exposed are never those of an earlier run.
C1_OnlyLatestRunApplied ==
    \A r, q \in Runs :
        (r < q /\ Started(q)) =>
            (analysis.run # r /\ repo # r /\ onboardingGuide.run # r)

\* The requests run r has issued to a collaborator.
CallsOf(r) == {c \in netCalls : c[1] = r}

\* The submission was not turned away by the sign-in gate.
PastSignIn(r) == runs[r].pc # "idle" /\ (authEnabled => runs[r].user # "")

\* C4: a submission of an input that parseGithubUrl rejects issues no request to
\* any collaborator, and when it has ended 'Invalid GitHub URL' is in the log,
\* whether or not authentication and the usage check are configured.
C4_InvalidUrlBeforeAnyCall ==
    \A r \in Runs :
        (PastSignIn(r) /\ ~parseGithubUrl(runs[r].url).ok) =>
            /\ CallsOf(r) = {}
            /\ runs[r].pc = "rejected" => <<r, "Invalid GitHub URL">> \in terminalLogs

\* C5: with fast mode disabled a failure of guide generation or of an enrichment
\* is caught and skipped as with it enabled: a run whose core analysis has
\* completed never ends Failed and raises no alert.
C5_FullModeSameFaultTolerance ==
    \A r \in Runs :
        <<r, "AI analysis complete">> \in terminalLogs =>
            (runs[r].pc # "failed" /\ <<r, "failed">> \notin alerts)

\* Every edge of the graph g joins two of its nodes.
NoDangling(g) == \A e \in g.flowEdges : e[1] \in g.flowNodes /\ e[2] \in g.flowNodes

\* C9: no edge of a report whose source or target is not a node of the same
\* report is exposed: not in the graph state, not in the analysis state, not in
\* the report handed to saveAnalysisRecord.
C9_NoDanglingEdgeExposed ==
    /\ \A e \in edges : e[1] \in nodes /\ e[2] \in nodes
    /\ NoDangling(analysis)
    /\ \A r \in Runs : NoDangling(saves[r].analysis)

(***************************************************************************)
(* Claims about the cache, the failure paths and the release of the run.   *)
(***************************************************************************)

\* The requests a step adds to those in flight or answered.
Issued == netCalls' \ netCalls

\* Run r has fetched the repository of its reference: fetchRepoDetails has
\* resolved (the tree is only requested then).
DetailsFetched(r) == <<r, "github", "fetchRepoStructure">> \in netCalls

\* Run r has obtained the analysis of its reference.
AnalysisObtained(r) == <<r, "AI analysis complete">> \in terminalLogs

\* C11: when the same repository is fetched or analysed again within the cache
\* TTL (the clock stands still here), the result comes from the cache: no second
\* fetchRepoDetails or analyzeRepository request is issued for it.
C11_RepeatServedFromCache ==
    [][\A r, q \in Runs :
          (r # q /\ runs'[q].url = runs[r].url) =>
              /\ DetailsFetched(r) => <<q, "github", "fetchRepoDetails">> \notin Issued
              /\ AnalysisObtained(r) => <<q, "gemini", "analyzeRepository">> \notin Issued]_vars

\* Run r ended in the catch block before its core analysis was there.
FailedEarly(r) == runs[r].pc = "failed" /\ ~AnalysisObtained(r)

\* The steps that follow the core analysis.
LaterCalls(r) ==
    {<<r, "gemini", op>> : op \in EnrichOps \cup {"generateOnboardingGuide"}}
        \cup {<<r, "store", "saveAnalysisRecord">>}

\* C12: if fetchRepoDetails, fetchRepoStructure or analyzeRepository fails, the
\* run ends Failed: the step that fails clears loading and issues no request,
\* an error is logged and alerted, nothing of this run is exposed, no later step
\* (guide, enrichments, record-store write) is started, and the run issues no
\* further request, so the failed call is not repeated.
C12_CriticalFailureEndsRun ==
    /\ [](\A r \in Runs :
            FailedEarly(r) =>
                /\ <<r, "failed">> \in alerts /\ <<r, "Error">> \in terminalLogs
                /\ analysis.run # r /\ repo # r /\ structure # r
                /\ onboardingGuide.run # r
                /\ CallsOf(r) \cap LaterCalls(r) = {}
                /\ saves[r] = NoSave)
    /\ [][\A r \in Runs :
            /\ (runs[r].pc \in {"details", "tree", "analysis"} /\ runs'[r].pc = "failed")
                   => (loading' = FALSE /\ Issued = {})
            /\ FailedEarly(r) => (runs'[r].pc = "failed" /\ CallsOf(r)' = CallsOf(r))]_vars

\* A run has ended in the catch block because analyzeRepository failed.
C12_Witness ==
    \E r \in Runs : FailedEarly(r) /\ <<r, "gemini", "analyzeRepository">> \in netCalls

\* C13: in fast mode, the step that receives the core analysis exposes the
\* report, the repository and the structure, returns from handleImport and arms
\* the timer that releases the loading state; no step of the background phase
\* (guide, prefetches, enrichments, whatever their outcome) changes the report,
\* the repository, the structure, the loading state or that timer, and the timer
\* fires even if the background phase never ends.
C13_FastModeRelease ==
    /\ [][\A r \in Runs :
            /\ (fastMode /\ runs[r].pc = "analysis" /\ runs'[r].pc = "guide")
                   => /\ analysis'.run = r /\ repo' = r /\ structure' = r
                      /\ runs'[r].released /\ r \in timers'
            /\ (runs[r].released /\ runs'[r] # runs[r])
                   => /\ UNCHANGED <<analysis, repo, structure, loading, timers>>
                      /\ runs'[r].pc # "failed"]_vars
    /\ \A r \in Runs : (r \in timers) ~> (r \notin timers)

\* In fast mode guide generation has failed for a released run while the
\* loading state was still held.
C13_Witness ==
    \E r \in Runs :
        /\ fastMode /\ runs[r].released /\ runs[r].pc = "commits"
        /\ <<r, "Onboarding guide failed">> \in terminalLogs
        /\ r \in timers /\ loading /\ analysis.run = r

\* C14: the merge of the enrichments only adds fields: the step that merges
\* them, whichever of them failed, leaves the base fields of the guide (here its
\* run and the shape of quickStart, criticalFiles, recommendedPath, commonTasks
\* and setupInstructions) as guide generation produced them.
C14_MergeKeepsBaseFields ==
    [][\A r \in Runs :
          (runs[r].pc = "enrich" /\ runs'[r].pc # "enrich") =>
              /\ onboardingGuide'.run = onboardingGuide.run
              /\ onboardingGuide'.shape = onboardingGuide.shape]_vars

\* The ownership enrichment has failed, the other two have not, and the merge
\* has been applied to a guide that has all its base fields.
C14_Witness ==
    \E r \in Runs :
        /\ runs[r].pc = "complete" /\ onboardingGuide.run = r
        /\ onboardingGuide.shape = "full"
        /\ onboardingGuide.codeOwnership = "fallback"
        /\ onboardingGuide.recentActivity = "value"
        /\ onboardingGuide.testingSetup = "value"

\* Run r is the only submission that has passed the gate so far.
Alone(r) == \A q \in Runs : q # r => runs[q].pc \in {"idle", "rejected"}

\* Nothing has gone wrong: every request so far has succeeded and the gateway
\* has its API key.
AllWell == faults = 0 /\ apiKeyOk

\* The guide of run r is exposed with its generated base fields and the three
\* enrichments.
GuideEnriched(r) ==
    /\ analysis.run = r /\ analysis.shape = "full"
    /\ onboardingGuide.run = r /\ onboardingGuide.shape = "full"
    /\ onboardingGuide.codeOwnership = "value"
    /\ onboardingGuide.recentActivity = "value"
    /\ onboardingGuide.testingSetup = "value"

SameButFor(bk, bk2, k) ==
    /\ DOMAIN bk \ {k} = DOMAIN bk2 \ {k}
    /\ \A k2 \in DOMAIN bk \ {k} : bk2[k2] = bk[k2]

\* C16: every gateway operation asks the rate limiter, under a key no other
\* operation uses, before it issues a request: a call touches the bucket of its
\* own key and no other, a request is outstanding after the call only if the
\* limiter allowed it, and when the limiter denies the call none is issued.
C16_LimiterAskedFirst ==
    [][gwCalls' = gwCalls + 1 =>
          LET k == GatewayOps[gwOp'].key
              answer == IsAllowed(buckets, k, now, ApiConfig)
          IN  /\ \A o \in OpNames : GatewayOps[o].key = k => o = gwOp'
              /\ buckets' = answer.buckets
              /\ SameButFor(buckets, buckets', k)
              /\ k \in DOMAIN buckets'
              /\ gwIssued' => answer.allowed
              /\ ~answer.allowed => (~gwIssued' /\ gwPc' \in {"returned", "threw"})]_vars

\* An operation was called with its bucket exhausted and was turned away.
C16_Witness ==
    /\ gwOp = "analyzeIssues" /\ gwPc = "returned" /\ ~gwIssued /\ apiKeyOk
    /\ gwResult = Value("fallback")
    /\ buckets["issues"].tokens = 0

(***************************************************************************)
(* Claims about RateLimiter (token counts are kept multiplied by windowMs).*)
(***************************************************************************)

\* C17: after any sequence of isAllowed, reset and resetAll calls at
\* non-decreasing times, the token count of every bucket lies between 0 and
\* maxRequests.
C17_TokensWithinCapacity ==
    \A k \in DOMAIN buckets :
        /\ buckets[k].tokens >= 0
        /\ buckets[k].tokens <= rlCfg.maxRequests * rlCfg.windowMs

\* A key was allowed twice more than a window apart, so that the refill before
\* the later call was cut at the capacity.
C17_Witness ==
    \E k \in DOMAIN buckets :
        /\ Len(allowedLog[k]) >= 2
        /\ Last(allowedLog[k]) - Head(allowedLog[k]) > rlCfg.windowMs
        /\ buckets[k].tokens = (rlCfg.maxRequests - 1) * rlCfg.windowMs
        /\ rlLast.key = k /\ rlLast.allowed

\* C18: when isAllowed denies a call at time t with retryAfter, and no other call
\* on that key is made in between, the next call on the key is allowed when it
\* is made at t + retryAfter and denied when it is made before t + retryAfter.
C18_RetryAfterIsExactWait ==
    [][(/\ rlCalls' = rlCalls + 1
        /\ rlLast.key # "" /\ ~rlLast.allowed
        /\ rlLast'.key = rlLast.key
        /\ rlLast.key \in DOMAIN buckets)
       => /\ now = rlLast.at + rlLast.retryAfter => rlLast'.allowed
          /\ now < rlLast.at + rlLast.retryAfter => ~rlLast'.allowed]_vars

(***************************************************************************)
(* Claims about Cache.                                                     *)
(***************************************************************************)

\* C19: get(key), when the last write to the key was a set(key, v), returns v
\* at every time up to and including ttl after that set and null at every time
\* more than ttl after it, whatever was read, checked with has or written to
\* other keys in between.
C19_EntryLivesExactlyTtl ==
    [][\A k \in CacheKeys :
          (/\ cacheOps' = cacheOps + 1
           /\ cacheLast'.op = "get" /\ cacheLast'.key = k
           /\ cacheWrites[k].live)
          => IF cacheClock - cacheWrites[k].at <= cacheTtl
             THEN cacheLast'.hit /\ cacheLast'.data = cacheWrites[k].data
             ELSE ~cacheLast'.hit]_vars

\* A get missed an entry that was set more than ttl before and was read, within
\* its lifetime, since.
C19_Witness ==
    /\ cacheLast.op = "get" /\ ~cacheLast.hit
    /\ cacheWrites[cacheLast.key].live
    /\ cacheWrites[cacheLast.key].reads >= 2
    /\ cacheClock - cacheWrites[cacheLast.key].at = cacheTtl + 1
    /\ cacheTtl >= 1

(***************************************************************************)
(* Claims about parseGithubUrl.                                            *)
(***************************************************************************)

\* The names of owners and repositories: words, with ".git" inside or in front
\* but not as their ending.
RefNames == {s \in SeqsUpTo(Words \cup {".git"}, 2) : s # <<>> /\ Last(s) # ".git"}

\* https://github.com/<owner>/<name>, with or without a trailing .git
HttpsForms(owner, name) ==
    {<<h, "/">> \o owner \o <<"/">> \o name \o suffix :
        h \in GithubHeads, suffix \in {<<>>, <<".git">>}}

\* git@github.com:<owner>/<name>.git
SshForm(owner, name) == <<SshHead>> \o owner \o <<"/">> \o name \o <<".git">>

\* https://github.com/<owner>, with or without a closing slash
OwnerOnlyForms(owner) ==
    {<<h, "/">> \o owner \o closing : h \in GithubHeads, closing \in {<<>>, <<"/">>}}

\* C20: parseGithubUrl returns the same {owner, repo} for the HTTPS form and for
\* the SSH form of a repository, without the trailing .git, and null for a URL
\* on another host and for a URL that has only an owner segment.
C20_HttpsAndSshAgree ==
    parsePc = "returned" =>
        /\ \A owner, name \in RefNames :
               parseIn \in HttpsForms(owner, name) \cup {SshForm(owner, name)}
               => parseOut = [ok |-> TRUE, owner |-> owner, repo |-> name]
        /\ Head(parseIn) = OtherHead => parseOut = NoMatch
        /\ \A owner \in RefNames :
               parseIn \in OwnerOnlyForms(owner) => parseOut = NoMatch

\* The SSH form of acme/widgets has been resolved.
C20_Witness ==
    /\ parsePc = "returned"
    /\ parseIn = SshForm(<<"acme">>, <<"widgets">>)
    /\ parseOut = [ok |-> TRUE, owner |-> <<"acme">>, repo |-> <<"widgets">>]

(***************************************************************************)
(* Further claims about RateLimiter.                                       *)
(***************************************************************************)

\* The bucket of key k, or none.
BucketOf(bk, k) == [j \in DOMAIN bk \cap {k} |-> bk[j]]

\* C21: isAllowed(k1) and reset(k1) leave the bucket of every other key k2 as
\* it is, and the answer of isAllowed(k2) is the one computed from the bucket of
\* k2 alone.
C21_BucketsIsolatedPerKey ==
    [][\A k1 \in RLKeys :
          /\ (IsAllowedCall(k1) \/ Reset(k1))
             => \A k2 \in RLKeys \ {k1} : BucketOf(buckets', k2) = BucketOf(buckets, k2)
          /\ IsAllowedCall(k1)
             => LET alone == IsAllowed(BucketOf(buckets, k1), k1, now, rlCfg)
                IN  /\ rlLast'.allowed = alone.allowed
                    /\ rlLast'.retryAfter = alone.retryAfter]_vars

\* "chat" has just been allowed while the bucket of "audit" is exhausted.
C21_Witness ==
    /\ rlLast.key = "chat" /\ rlLast.allowed /\ rlLast.at = now
    /\ "audit" \in DOMAIN buckets
    /\ buckets["audit"].lastRefill = now
    /\ buckets["audit"].tokens < rlCfg.windowMs

(***************************************************************************)
(* Further claims about the pipeline.                                      *)
(***************************************************************************)

\* The write of run r's result to the record store.
SaveCall(r) == <<r, "store", "saveAnalysisRecord">>

\* C22: saveAnalysisRecord is issued only by the step that has received the
\* core analysis; the pipeline does not wait for it (the guide step can be taken
\* while the write is pending); when the write settles, only the log changes:
\* the runs, the exposed results, the alerts and the requests stay as they are;
\* a failed write stays failed.
C22_SaveIsFireAndForget ==
    /\ [](\A r \in Runs :
            /\ SaveCall(r) \in netCalls => AnalysisObtained(r)
            /\ (saves[r].state = "pending" /\ runs[r].pc = "guide")
                   => ENABLED GuideDone(r, "refused") \/ ENABLED GuideDone(r, "valid"))
    /\ [][\A r \in Runs :
            /\ SaveCall(r) \in Issued
                   => (runs[r].pc = "analysis" /\ runs'[r].pc = "guide")
            /\ (saves[r].state = "pending" /\ saves'[r].state # "pending")
                   => /\ UNCHANGED <<runs, exposed, alerts, netCalls>>
                      /\ saves'[r].analysis = saves[r].analysis
            /\ saves[r].state = "failed" => saves'[r] = saves[r]]_vars

\* The write of a run has failed and the run has completed, with its report
\* exposed and no alert.
C22_Witness ==
    \E r \in Runs :
        /\ saves[r].state = "failed" /\ runs[r].pc = "complete"
        /\ analysis.run = r /\ alerts = {}

\* The guide field that an enrichment fills.
GuideField(g, op) ==
    CASE op = "analyzeCodeOwnership" -> g.codeOwnership
      [] op = "analyzeRecentActivity" -> g.recentActivity
      [] OTHER -> g.testingSetup

\* How the request of an enrichment can end, sent or not.
EnrichOutcomes == Replies \cup Rejections \cup {"timeout", "refused"}

\* C23: when the three enrichments have settled and a guide is there, the field
\* of an enrichment whose request failed (refused by the limiter, rejected or
\* timed out) is absent, and the field of an enrichment that got a valid reply
\* holds its value.
C23_FailedEnrichmentStaysAbsent ==
    [][\A r \in Runs, out \in [EnrichOps -> EnrichOutcomes] :
          (EnrichDone(r, out) /\ onboardingGuide.run # 0) =>
              \A op \in EnrichOps :
                  /\ out[op] \notin Replies => GuideField(onboardingGuide', op) = "absent"
                  /\ out[op] = "valid" => GuideField(onboardingGuide', op) = "value"]_vars

\* C24: once a later submission has started, nothing that is exposed was
\* produced for the repository of an earlier run: not the report, the
\* repository, the structure, the guide, nor the insights bundle, whenever the
\* requests of the earlier run and of its insights fetch complete.
C24_StateBelongsToCurrentRun ==
    \A r, q \in Runs :
        (r < q /\ Started(q)) =>
            /\ analysis.run # r /\ repo # r /\ structure # r
            /\ onboardingGuide.run # r
            /\ insights # r

\* The insights of an earlier repository alone: they are set by a fetch that
\* completes after the later submission.
StaleInsightsApplied ==
    \E r, q \in Runs :
        /\ r < q /\ Started(q) /\ insights = r /\ insightCalls[r] = "done"
        /\ analysis.run # r /\ repo # r /\ structure # r /\ onboardingGuide.run # r

\* The request of run r for the README.
ReadmeCall(r) == <<r, "github", "fetchFileContent">>

\* C25: the README fetch is launched when the run starts: while the metadata
\* fetch (fetchRepoDetails) of a run is outstanding, the README fetch of the run
\* has been issued too.
C25_ReadmeLaunchedAtStart ==
    \A r \in Runs : runs[r].pc = "details" => ReadmeCall(r) \in netCalls

\* C26: the requests follow their dependencies.  The structure fetch is issued
\* by the step in which the metadata fetch resolves; analyzeRepository is issued
\* only when the metadata and the structure have resolved and the README text or
\* its '' substitute is there; and the prefetched commits and contributors are
\* awaited only by a run whose core analysis has completed.
C26_CallsFollowDependencies ==
    [][\A r \in Runs :
          /\ <<r, "github", "fetchRepoStructure">> \in Issued
                => (runs[r].pc = "details" /\ runs'[r].pc = "tree")
          /\ <<r, "gemini", "analyzeRepository">> \in Issued
                => /\ runs[r].pc = "readme"
                   /\ DetailsFetched(r)
                   /\ runs[r].readme \in {"loaded", "empty"}
          /\ (runs[r].pc # "commits" /\ runs'[r].pc = "commits")
                => AnalysisObtained(r)]_vars

\* A run awaits its prefetches, its analysis having been made with the ''
\* substitute of the README.
C26_Witness ==
    \E r \in Runs :
        /\ runs[r].pc = "commits" /\ runs[r].readme = "empty"
        /\ <<r, "gemini", "analyzeRepository">> \in netCalls
        /\ <<r, "github", "fetchRecentCommits">> \in netCalls

\* C27: a failed README fetch does not fail the run.  The step in which
\* readmePromise settles leaves the run where it is, shows no alert and changes
\* nothing that is exposed, the text being '' after a failure; a run that has
\* the '' text and its structure can call analyzeRepository.
C27_ReadmeFailureIsAbsorbed ==
    /\ [][\A r \in Runs, ok \in BOOLEAN :
             ReadmeSettled(r, ok) =>
                 /\ runs'[r].pc = runs[r].pc
                 /\ runs'[r].readme = (IF ok THEN "loaded" ELSE "empty")
                 /\ UNCHANGED <<exposed, alerts, netCalls>>]_vars
    /\ [](\A r \in Runs :
             (runs[r].pc = "readme" /\ runs[r].readme = "empty")
                 => ENABLED StartAnalysis(r))

\* A run whose README fetch failed has exposed its analysis (CoreReady) and
\* has completed.
C27_Witness ==
    \E r \in Runs :
        /\ runs[r].readme = "empty" /\ runs[r].pc = "complete"
        /\ analysis.run = r /\ <<r, "No README found">> \in terminalLogs
        /\ <<r, "failed">> \notin alerts

(***************************************************************************)
(* A further claim about handleError.                                      *)
(***************************************************************************)

\* The message of the caught value contains 'fetch' or 'network'.
NetworkMessage(error) == Includes(error.msg, "fetch") \/ Includes(error.msg, "network")

\* C28: handleError maps every thrown value to one AppError: an AppError to
\* itself, an Error whose message contains 'fetch' or 'network' to
\* NETWORK_ERROR with status 503, every other value to API_ERROR with status
\* 500; and applied to its own result it returns that result.
C28_HandleErrorClassifiesOnce ==
    /\ [](errPc # "idle" =>
            /\ errOut.class = "AppError"
            /\ errIn.class = "AppError" => errOut = errIn
            /\ (errIn.class = "Error" /\ NetworkMessage(errIn))
                   => (errOut.code = "NETWORK_ERROR" /\ errOut.status = 503)
            /\ (errIn.class = "other" \/ (errIn.class = "Error" /\ ~NetworkMessage(errIn)))
                   => (errOut.code = "API_ERROR" /\ errOut.status = 500))
    /\ [][HandleErrorAgain => errOut' = errOut]_vars

\* handleError was applied twice to an Error whose message contains 'fetch'
\* inside a longer word.
C28_Witness ==
    /\ errPc = "twice" /\ errIn.class = "Error"
    /\ errIn.msg = <<"failed", "refetching">>
    /\ errOut.code = "NETWORK_ERROR"

(***************************************************************************)
(* A further claim about the sign-in and usage gate of handleImport.       *)
(***************************************************************************)

\* The requests of run r to the source provider and the inference service.
OutsideCalls(r) == {c \in CallsOf(r) : c[2] \in {"github", "gemini"}}

\* C29: with authentication configured, a run has issued a request to the
\* source provider or the inference service only if its user was signed in and
\* its usage check answered allowed (usedToday < dailyLimit); the step in
\* which a submission is turned away (no session yet, no user, limit reached,
\* usage check failed) issues no request and leaves the exposed repository
\* state as it is, and a run that was turned away never starts.
C29_GateBeforeAnyRequest ==
    /\ [](\A r \in Runs :
            authEnabled =>
                /\ OutsideCalls(r) # {}
                      => /\ runs[r].user # ""
                         /\ <<r, "store", "canAnalyzeToday">> \in netCalls
                         /\ <<r, "Daily usage">> \in terminalLogs
                /\ (\E kind \in {"sign-in", "limit", "error"} : <<r, kind>> \in alerts)
                      => (runs[r].pc = "rejected" /\ OutsideCalls(r) = {}))
    /\ [][\A r \in Runs :
             /\ (authEnabled /\ runs[r].pc # "rejected" /\ runs'[r].pc = "rejected")
                   => (Issued = {} /\ UNCHANGED exposed)
             /\ runs[r].pc = "rejected" => runs'[r].pc = "rejected"]_vars

\* A submission is turned away at the limit while the results of an earlier
\* run of the signed-in user stay exposed.
C29_Witness ==
    \E r, q \in Runs :
        /\ authEnabled /\ q < r
        /\ runs[r].pc = "rejected" /\ <<r, "limit">> \in alerts
        /\ OutsideCalls(q) # {} /\ repo = q /\ analysis.run = q

(***************************************************************************)
(* A further claim about fetchRepoStructure.                               *)
(***************************************************************************)

\* How many nodes hang under the paths of S.
RECURSIVE KidCount(_)
KidCount(S) ==
    IF S = {} THEN 0
    ELSE LET p == CHOOSE q \in S : TRUE
         IN  Len(treeKids[p]) + KidCount(S \ {p})

\* The nodes of the hierarchy: the roots and the children.
HierarchySize == Len(treeRoot) + KidCount(PathUniverse)
HierarchyPaths == Range(treeRoot) \cup UNION {Range(treeKids[p]) : p \in PathUniverse}

\* C30: in the hierarchy every root has a path of one segment and every child
\* hangs under the node whose path is its own without the last segment, which
\* is a tree and never a blob; and with maxEntries = N the nodes come from the
\* first N entries of the listing, so that they are at most N.
C30_HierarchyFollowsPaths ==
    /\ \A i \in 1..Len(treeRoot) : Len(treeRoot[i]) = 1
    /\ \A parent \in PathUniverse : \A i \in 1..Len(treeKids[parent]) :
           LET child == treeKids[parent][i]
           IN  /\ Len(child) > 1
               /\ SubSeq(child, 1, Len(child) - 1) = parent
               /\ \A j \in 1..Len(treeData) :
                      treeData[j].path = parent => treeData[j].type = "tree"
    /\ treeMax # 0 =>
           /\ HierarchySize <= treeMax
           /\ \A p \in HierarchyPaths :
                  \E j \in 1..treeMax : j <= Len(treeData) /\ treeData[j].path = p

\* A listing of four entries was cut to two, a blob and an entry under it.
C30_Witness ==
    /\ treeDone /\ treeMax = 2 /\ Len(treeData) = 4
    /\ treeData[1].path = <<"d.txt">> /\ treeData[2].path = <<"d.txt", "z">>
    /\ treeRoot = <<(<<"d.txt">>)>>
====
